---- MODULE Spec2Model ----
(***************************************************************************)
(* Mind-Pulse: the passive harmful-behaviour monitor of commands/monitor.py *)
(* (burst aggregation, debounce / hard-cap finalize task, cooldown ledger,  *)
(* classification and delivery) as a state machine.                         *)
(*                                                                          *)
(* Time is counted in ticks of 0.05 s: the finalize task polls every        *)
(* asyncio.sleep(0.1) = POLL ticks, so messages can arrive between polls.   *)
(* The HARM_* tunables are environment overrides; the model runs the        *)
(* program with short debounce and cap values and the default cooldown.     *)
(* The event loop is single threaded: every action below is the code that   *)
(* runs between two awaits.                                                 *)
(***************************************************************************)
EXTENDS Integers, Sequences, FiniteSets, TLC

TicksPerSecond == 20
POLL == 2
DEBOUNCE_SECONDS == 3
MAX_BURST_SECONDS == 5
MAX_COMBINED_CHARS == 4
COOLDOWN_SECONDS == 600 * TicksPerSecond

\* Bounds of the explored runs: the messages the environment sends, and the
\* reading of the clock when the program starts.
MaxMsgs == 3
CapMsgs == 5
LiveMsgs == 3
DmMsgs == 2
GateMsgs == 2
StartTime == 20000

VARIABLES
  now,        \* time.time()
  cfg,        \* core.config.cfg (harm_detector, harm_severity_min)
  _BUFFERS,   \* dict key -> _Burst (a reference: an index into bursts)
  _COOLDOWN,  \* dict user id -> time of the last granted DM
  bursts,     \* every _Burst object ever constructed, by object identity
  tasks,      \* every asyncio task of _process_after_delay ever created
  env,        \* the environment: messages that may arrive, classifier answers, clock
  budget,     \* messages the environment may still send
  hist,       \* history: per key, the contents accepted and the time of the last one
  meta,       \* history: per _Burst object, its key, birth and whether it is live
  pops,       \* history: every removal of a burst from _BUFFERS, in order
  dms,        \* history: every call of _can_dm, in order
  consents,   \* the user ids load_consents() returns
  _buf,       \* ctx_store._buf: dict (guild, channel) -> deque of Msg
  handlers,   \* every call of on_message that got past the consent check
  snap        \* history: the last call of ctx_store.window and what it returned

\* The state of bot.on_message and of core.context.
front == <<consents, _buf, handlers, snap>>

vars ==
  <<now, cfg, _BUFFERS, _COOLDOWN, bursts, tasks, env, budget, hist, meta, pops, dms,
    consents, _buf, handlers, snap>>

----------------------------------------------------------------------------
(* Text: a str is a sequence of one-character strings. *)

Take(s, n) == SubSeq(s, 1, IF n < Len(s) THEN n ELSE Len(s))

\* str.isspace() for the characters of the model.
IsSpace(c) == c \in {" ", "\n", "\t", "\r"}

RECURSIVE LStrip(_)
LStrip(s) == IF s # <<>> /\ IsSpace(Head(s)) THEN LStrip(Tail(s)) ELSE s

RECURSIVE RStrip(_)
RStrip(s) ==
  IF s # <<>> /\ IsSpace(s[Len(s)]) THEN RStrip(SubSeq(s, 1, Len(s) - 1)) ELSE s

\* str.strip()
Strip(s) == RStrip(LStrip(s))

\* The elements of a sequence.
Range(seq) == {seq[i] : i \in 1..Len(seq)}

\* " ".join(parts)
RECURSIVE Join(_)
Join(parts) ==
  IF parts = <<>> THEN <<>>
  ELSE IF Len(parts) = 1 THEN parts[1]
  ELSE parts[1] \o <<" ">> \o Join(Tail(parts))

\* "".join(parts)
RECURSIVE Concat(_)
Concat(ss) == IF ss = <<>> THEN <<>> ELSE Head(ss) \o Concat(Tail(ss))

----------------------------------------------------------------------------
(* Messages and keys *)

A == <<"a">>
SP == <<" ">>
LONG == <<"b", "a", "d", " ", "a", "b">>
EMPTY == <<>>

Msg(g, c, a, content, bot) ==
  [guild |-> g, channel |-> c, author |-> a, content |-> content, bot |-> bot]

\* Mutant: one burst per channel, whoever writes.
_key_channel(msg) == <<(IF msg.guild # 0 THEN msg.guild ELSE 0), msg.channel, 0>>

\* msg.guild is None for a direct message: guild 0 stands for None.
_key(msg) == <<(IF msg.guild # 0 THEN msg.guild ELSE 0), msg.channel, msg.author>>

Put(d, k, v) == [x \in (DOMAIN d) \cup {k} |-> IF x = k THEN v ELSE d[x]]
Del(d, k) == [x \in (DOMAIN d) \ {k} |-> d[x]]

Get(d, k, default) == IF k \in DOMAIN d THEN d[k] ELSE default

----------------------------------------------------------------------------
(* Classification policy *)

NoHarm == [is_harmful |-> FALSE, severity |-> "low", language |-> "und"]
\* The classifier was not (yet) awaited.
NoAnswer ==
  [raise |-> FALSE, harm |-> NoHarm, reply |-> [kind |-> "none", is_harmful |-> "absent",
                                                 severity |-> "absent"]]
KeywordHarm ==
  [is_harmful |-> TRUE, severity |-> "medium", language |-> "und", reason |-> "keyword"]

\* A reply of the chat endpoint to classify_harm.  kind "error": _azure_chat
\* raises (not configured, timeout, HTTP error, unexpected shape); "text": the
\* content holds no JSON object; "list": the content is JSON but not an object;
\* "json": the content is a JSON object whose members is_harmful and severity
\* are the given JSON literals ("absent": no such member).
Reply(kind, is_harmful, severity) ==
  [kind |-> kind, is_harmful |-> is_harmful, severity |-> severity]

NoReply == Reply("none", "absent", "absent")

\* bool(v) of the value json.loads gives for a literal; an absent member reads
\* as the default False.
Truthy(literal) == literal \notin {"absent", "false", "null", "0", "\"\""}

\* str(v).lower() of the severity member; an absent member reads as "low".
SeverityOf(literal) ==
  CASE literal = "absent" -> "low"
    [] literal = "\"low\"" -> "low"
    [] literal = "\"medium\"" -> "medium"
    [] literal = "\"high\"" -> "high"
    [] literal = "\"HIGH\"" -> "high"
    [] literal = "null" -> "none"
    [] OTHER -> literal

\* ai.classify_harm: what it returns for a reply.
classify_harm(reply) ==
  IF reply.kind \in {"error", "list"}
  THEN [is_harmful |-> FALSE, severity |-> "low", language |-> "und", reason |-> "fallback"]
  ELSE LET data == IF reply.kind = "json" THEN reply ELSE NoReply
       IN [is_harmful |-> Truthy(data.is_harmful),
           severity |-> SeverityOf(data.severity),
           language |-> "und", reason |-> ""]

_severity_rank(sev) ==
  CASE sev = "low" -> 1 [] sev = "medium" -> 2 [] sev = "high" -> 3 [] OTHER -> 0

\* Mutant: the severity has to exceed the minimum.
_passes_policy_strict(harm) ==
  harm.is_harmful /\ _severity_rank(harm.severity) > _severity_rank(cfg.harm_severity_min)

_passes_policy(harm) ==
  harm.is_harmful /\ _severity_rank(harm.severity) >= _severity_rank(cfg.harm_severity_min)

\* Whether str `k` occurs in `s` (Python's `k in s`).
Contains(s, k) ==
  \E i \in 1..(Len(s) - Len(k) + 1) : SubSeq(s, i, i + Len(k) - 1) = k

\* Characters are one-character strings; an Arabic character is written by its
\* Unicode name ("alef" is U+0627).  The tables hold the characters of the
\* lexicons and patterns of lines 50-75.
LowerCase ==
  <<"a", "b", "c", "d", "e", "f", "g", "h", "i", "j", "k", "l", "m", "n", "o", "p", "q", "r", "s", "t", "u", "v", "w", "x", "y", "z">>
UpperCase ==
  <<"A", "B", "C", "D", "E", "F", "G", "H", "I", "J", "K", "L", "M", "N", "O", "P", "Q", "R", "S", "T", "U", "V", "W", "X", "Y", "Z">>
Digits == {"0", "1", "2", "3", "4", "5", "6", "7", "8", "9"}

\* [\u0621-\u064A]
ArabicLetters ==
  {"hamza", "alef_with_madda_above", "alef_with_hamza_above", "waw_with_hamza_above",
   "alef_with_hamza_below", "yeh_with_hamza_above", "alef", "beh", "teh_marbuta", "teh",
   "theh", "jeem", "hah", "khah", "dal", "thal", "reh", "zain", "seen", "sheen", "sad",
   "dad", "tah", "zah", "ain", "ghain", "keheh_with_two_dots_above",
   "keheh_with_three_dots_below", "farsi_yeh_with_inverted_v",
   "farsi_yeh_with_two_dots_above", "farsi_yeh_with_three_dots_above", "tatweel", "feh",
   "qaf", "kaf", "lam", "meem", "noon", "heh", "waw", "alef_maksura", "yeh"}

\* [\u0617-\u061A\u064B-\u0652]
_AR_DIACRITICS_RE ==
  {"small_high_zain", "small_fatha", "small_damma", "small_kasra", "fathatan", "dammatan",
   "kasratan", "fatha", "damma", "kasra", "shadda", "sukun"}

_TATWEEL == "tatweel"

_ARABIZI_MAP ==
  ("2" :> "alef") @@ ("3" :> "ain") @@ ("5" :> "khah") @@ ("6" :> "tah") @@ ("7" :> "hah") @@ ("8" :> "qaf") @@ ("9" :> "sad")

\* \w of Python's re on str.
WordChars == Range(LowerCase) \cup Range(UpperCase) \cup Digits \cup {"_"} \cup ArabicLetters
IsWord(c) == c \in WordChars

\* [a-z\-] under re.I
InsultChars == Range(LowerCase) \cup Range(UpperCase) \cup {"-"}
IsInsultChar(c) == c \in InsultChars

\* [\u0621-\u064A]
IsArabic(c) == c \in ArabicLetters

\* [^.!?]
NotStop(c) == c \notin {".", "!", "?"}

\* [a-z]
LowerChars == Range(LowerCase)
IsLower(c) == c \in LowerChars

\* The lower-case letter of each upper-case one.
ToLower == [c \in Range(UpperCase) |-> LowerCase[CHOOSE n \in 1..Len(UpperCase) : UpperCase[n] = c]]

\* str.lower()
lower(s) == [i \in 1..Len(s) |-> IF s[i] \in DOMAIN ToLower THEN ToLower[s[i]] ELSE s[i]]

\* str.translate(_ARABIZI_MAP)
dearabizi(s) ==
  [i \in 1..Len(s) |-> IF s[i] \in DOMAIN _ARABIZI_MAP THEN _ARABIZI_MAP[s[i]] ELSE s[i]]

\* The replace chain of normalize_arabic for one character.
Unify(c) ==
  CASE c \in {"alef_with_hamza_above", "alef_with_hamza_below", "alef_with_madda_above"} -> "alef"
    [] c = "alef_maksura" -> "yeh"
    [] c = "teh_marbuta" -> "heh"
    [] OTHER -> c

\* The number of characters at the head of s that equal its first one.
RunLen(s) ==
  IF \E n \in 1..Len(s) : s[n] # s[1]
  THEN (CHOOSE n \in 1..Len(s) : s[n] # s[1] /\ \A m \in 1..(n - 1) : s[m] = s[1]) - 1
  ELSE Len(s)

\* re.sub(r"(.)\1{2,}", r"\1", s): a run of three or more becomes one character.
RECURSIVE Collapse(_)
Collapse(s) ==
  IF s = <<>> THEN <<>>
  ELSE IF RunLen(s) >= 3 THEN <<s[1]>> \o Collapse(SubSeq(s, RunLen(s) + 1, Len(s)))
  ELSE <<s[1]>> \o Collapse(Tail(s))

normalize_arabic(s) ==
  LET NotTatweel(c) == c # _TATWEEL
      NotDiacritic(c) == c \notin _AR_DIACRITICS_RE
      bare == SelectSeq(SelectSeq(s, NotTatweel), NotDiacritic)
  IN Collapse([i \in 1..Len(bare) |-> Unify(bare[i])])

\* Pattern matching: a pattern is followed through the text as the set of the
\* positions its match can have reached (position p is before character p).

\* The literal w matches at position p.
At(s, p, w) == p + Len(w) - 1 <= Len(s) /\ SubSeq(s, p, p + Len(w) - 1) = w

\* One of the literals of W, from a position of P.
Lit(s, P, W) ==
  {q \in 1..(Len(s) + 1) : \E p \in P : \E w \in W : At(s, p, w) /\ q = p + Len(w)}

\* The character classes of the patterns.
InClass(c, class) ==
  CASE class = "\\s" -> IsSpace(c)
    [] class = "\\w" -> IsWord(c)
    [] class = "[a-z\\-]" -> IsInsultChar(c)
    [] class = "[^.!?]" -> NotStop(c)
    [] class = "[\\u0621-\\u064A]" -> IsArabic(c)

\* n or more characters of a class, from a position of P.
Many(s, P, class, n) ==
  {q \in 1..(Len(s) + 1) : \E p \in P : q - p >= n /\ \A k \in p..(q - 1) : InClass(s[k], class)}

\* \b
Boundary(s, p) ==
  LET word(k) == k \in 1..Len(s) /\ IsWord(s[k])
  IN word(p - 1) # word(p)

Boundaries(s) == {p \in 1..(Len(s) + 1) : Boundary(s, p)}

EN_PRONOUNS ==
  {<<"y", "o", "u">>, <<"u">>, <<"u", "r">>, <<"y", "o", "u", "'", "r", "e">>,
   <<"y", "o", "u", "r", "e">>}

\* The parts of EN_DIRECT_RE, each from the positions its left neighbour reached.
\* (?:hey\s+)?
Hey(tl, P) == P \cup Many(tl, Lit(tl, P, {<<"h", "e", "y">>}), "\\s", 1)

\* (?:@?\w+)\s+
Name(tl, P) == Many(tl, Many(tl, P \cup Lit(tl, P, {<<"@">>}), "\\w", 1), "\\s", 1)

\* (?:(?:hey\s+)?(?:@?\w+)\s+)?
Prefix(tl, P) == P \cup Name(tl, Hey(tl, P))

\* (?:you|u|ur|you're|youre)\s+
You(tl, P) == Many(tl, Lit(tl, P, EN_PRONOUNS), "\\s", 1)

\* (?:are\s+)?
Are(tl, P) == P \cup Many(tl, Lit(tl, P, {<<"a", "r", "e">>}), "\\s", 1)

\* (?:so\s+|such\s+a\s+)?
So(tl, P) ==
  P \cup Many(tl, Lit(tl, P, {<<"s", "o">>}), "\\s", 1)
    \cup Many(tl, Lit(tl, Many(tl, Lit(tl, P, {<<"s", "u", "c", "h">>}), "\\s", 1), {<<"a">>}),
              "\\s", 1)

\* ([a-z\-]{2,}\s*)
Insult(tl, P) == Many(tl, Many(tl, P, "[a-z\\-]", 2), "\\s", 0)

\* One more repetition of the group, or none.
Again(tl, P) == P \cup Insult(tl, P)

\* EN_DIRECT_RE.search(tl)
EN_DIRECT_RE(tl) ==
  \E q \in Again(tl, Again(tl, Again(tl, Insult(tl,
             So(tl, Are(tl, You(tl, Prefix(tl, Boundaries(tl))))))))) :
    Boundary(tl, q)

AR_INSULTS ==
  {<<"ghain", "beh", "yeh">>,
   <<"teh", "alef", "feh", "heh">>,
   <<"kaf", "lam", "beh">>,
   <<"qaf", "thal", "reh">>,
   <<"zain", "beh", "alef", "lam", "heh">>,
   <<"zain", "beh", "alef", "lam", "teh_marbuta">>,
   <<"hah", "qaf", "yeh", "reh">>,
   <<"qaf", "beh", "yeh", "hah">>,
   <<"kaf", "seen", "waw", "lam">>,
   <<"seen", "yeh", "yeh_with_hamza_above">>,
   <<"seen", "yeh", "hamza">>,
   <<"alef_with_hamza_above", "seen", "waw", "alef_with_hamza_above">>,
   <<"alef", "seen", "waw", "hamza">>,
   <<"seen", "khah", "yeh", "feh">>}

AR_COMMANDS ==
  {<<"khah", "lam", "sad">>,
   <<"reh", "dal">>,
   <<"alef", "noon", "qaf", "lam", "ain">>,
   <<"beh", "reh", "alef">>,
   <<"beh", "reh", "heh">>}

\* AR_DIRECT_RE.search(t_norm)
AR_DIRECT_RE(t) ==
  LET starts == {1} \cup {p + 1 : p \in {k \in 1..Len(t) : IsSpace(t[k])}}
      anta == Many(t, Lit(t, starts, {<<"alef", "noon", "teh">>, <<"alef_with_hamza_below", "noon", "teh">>}), "\\s", 1)
      rest == {p \in Many(t, anta, "[^.!?]", 0) : Boundary(t, p)}
      named == Many(t, Many(t, {1}, "[\\u0621-\\u064A]", 2), "\\s", 1)
      reply == Many(t, Lit(t, Boundaries(t), {<<"reh", "dal">>}), "\\s", 1)
      onto == Many(t, Lit(t, reply, {<<"ain">>, <<"ain", "lam", "alef_maksura">>}), "\\s", 1)
  IN \/ \E q \in Lit(t, rest, AR_INSULTS) : Boundary(t, q)
     \/ Lit(t, named, AR_COMMANDS) # {}
     \/ Many(t, onto, "[\\u0621-\\u064A]", 2) # {}

\* EN_KEYWORDS without the words of HARM_EXTRA_EN.
EN_KEYWORDS ==
  {<<"i", "d", "i", "o", "t">>,
   <<"s", "t", "u", "p", "i", "d">>,
   <<"m", "o", "r", "o", "n">>,
   <<"d", "u", "m", "b">>,
   <<"u", "s", "e", "l", "e", "s", "s">>,
   <<"t", "r", "a", "s", "h">>,
   <<"g", "a", "r", "b", "a", "g", "e">>,
   <<"l", "o", "s", "e", "r">>,
   <<"d", "i", "s", "g", "u", "s", "t", "i", "n", "g">>,
   <<"w", "o", "r", "t", "h", "l", "e", "s", "s">>,
   <<"s", "h", "u", "t", " ", "u", "p">>,
   <<"k", "i", "l", "l", " ", "y", "o", "u", "r", "s", "e", "l", "f">>,
   <<"w", "t", "f">>,
   <<"f", "a", "t">>,
   <<"u", "g", "l", "y">>,
   <<"c", "l", "o", "w", "n">>,
   <<"j", "e", "r", "k">>,
   <<"b", "a", "d">>,
   <<"w", "o", "r", "s", "t">>,
   <<"p", "a", "t", "h", "e", "t", "i", "c">>}

\* AR_KEYWORDS without the words of HARM_EXTRA_AR.
AR_KEYWORDS ==
  {<<"alef", "khah", "reh", "seen">>,
   <<"alef", "seen", "kaf", "teh">>,
   <<"kaf", "lam", "beh">>,
   <<"zain", "beh", "alef", "lam", "heh">>,
   <<"zain", "beh", "alef", "lam", "teh_marbuta">>,
   <<"qaf", "thal", "reh">>,
   <<"teh", "feh", "waw">>,
   <<"teh", "alef", "feh", "heh">>,
   <<"ghain", "beh", "yeh">>,
   <<"hah", "qaf", "yeh", "reh">>,
   <<"alef", "hah", "meem", "qaf">>,
   <<"alef_with_hamza_above", "hah", "meem", "qaf">>,
   <<"kaf", "seen", "waw", "lam">>,
   <<"qaf", "beh", "yeh", "hah">>,
   <<"seen", "yeh", "hamza">>,
   <<"seen", "yeh", "yeh_with_hamza_above">>,
   <<"alef", "seen", "waw", "hamza">>,
   <<"alef_with_hamza_above", "seen", "waw", "alef_with_hamza_above">>,
   <<"seen", "khah", "yeh", "feh">>,
   <<"hah", "yeh", "waw", "alef", "noon">>,
   <<"alef", "noon", "qaf", "lam", "ain">>,
   <<"beh", "reh", "alef">>,
   <<"beh", "reh", "heh">>,
   <<"alef", "khah", "teh", "feh", "yeh">>,
   <<"waw", "lam", "kaf">>}

\* The common blocks of a and b: <<i, j, k>> when k characters of a from i are
\* those of b from j.
Blocks(a, b) ==
  {m \in (1..Len(a)) \X (1..Len(b)) \X (1..Len(a)) :
     /\ m[1] + m[3] - 1 <= Len(a)
     /\ At(b, m[2], SubSeq(a, m[1], m[1] + m[3] - 1))}

\* The longest block, the earliest in a, then the earliest in b.
Best(blocks) ==
  IF blocks = {} THEN <<1, 1, 0>>
  ELSE CHOOSE m \in blocks : \A n \in blocks :
         \/ m[3] > n[3]
         \/ m[3] = n[3] /\ m[1] < n[1]
         \/ m[3] = n[3] /\ m[1] = n[1] /\ m[2] <= n[2]

\* SequenceMatcher.find_longest_match over whole a and b (no junk: b is short).
LongestMatch(a, b) == Best(Blocks(a, b))

\* The sum of the sizes of SequenceMatcher.get_matching_blocks(): the longest
\* block m, and the blocks to its left and to its right.
RECURSIVE Matches(_, _), Around(_, _, _)
Around(a, b, m) ==
  IF m[3] = 0 THEN 0
  ELSE m[3] + Matches(SubSeq(a, 1, m[1] - 1), SubSeq(b, 1, m[2] - 1))
            + Matches(SubSeq(a, m[1] + m[3], Len(a)), SubSeq(b, m[2] + m[3], Len(b)))

Matches(a, b) == Around(a, b, LongestMatch(a, b))

\* Mutant: the longest block only.
_similar_longest(a, b) ==
  IF Len(a) + Len(b) = 0 THEN 100
  ELSE (200 * LongestMatch(lower(a), lower(b))[3]) \div (Len(a) + Len(b))

\* SequenceMatcher(a=a.lower(), b=b.lower()).ratio(), in hundredths, rounded down.
_similar(a, b) ==
  IF Len(a) + Len(b) = 0 THEN 100
  ELSE (200 * Matches(lower(a), lower(b))) \div (Len(a) + Len(b))

\* re.findall(r"[a-z]{3,}", tl)
Tokens(tl) ==
  LET runs == {r \in (1..Len(tl)) \X (1..Len(tl)) :
                 /\ r[2] - r[1] + 1 >= 3
                 /\ \A k \in r[1]..r[2] : IsLower(tl[k])
                 /\ r[1] = 1 \/ ~IsLower(tl[r[1] - 1])
                 /\ r[2] = Len(tl) \/ ~IsLower(tl[r[2] + 1])}
  IN {SubSeq(tl, r[1], r[2]) : r \in runs}

AR_DIALECT_ENABLED == cfg.ar_dialect_enabled

\* Lines 91-95: t_norm.
Normalized(t) == IF AR_DIALECT_ENABLED THEN normalize_arabic(dearabizi(t)) ELSE t

\* Lines 97-112: the patterns, the lexicons and the fuzzy match.
Signals(tl, t_norm) ==
  \/ EN_DIRECT_RE(tl)
  \/ AR_DIALECT_ENABLED /\ AR_DIRECT_RE(t_norm)
  \/ \E k \in EN_KEYWORDS : Contains(tl, k)
  \/ AR_DIALECT_ENABLED /\ \E k \in AR_KEYWORDS : Contains(t_norm, k)
  \/ \E token \in Tokens(tl) : \E k \in EN_KEYWORDS : _similar(token, k) >= 82

\* Lines 84-112 for the stripped text t.
Stripped(t) == t # <<>> /\ Signals(lower(t), Normalized(t))

_heuristic_harmful(text) == Stripped(Strip(text))

----------------------------------------------------------------------------
(* The burst buffer *)

\* _Burst.__init__
_Burst == [first_ts |-> now, last_ts |-> now, parts |-> <<>>, task |-> 0]

\* Mutant: a new _Burst for every message, also when the key has one.
_append_always_new(key, text) ==
  LET id == Len(bursts) + 1
      h1 == Append(bursts, _Burst)
      h3 == IF text # <<>>
            THEN [h1 EXCEPT ![id].parts = Append(@, Take(text, MAX_COMBINED_CHARS))]
            ELSE h1
  IN [bufs |-> Put(_BUFFERS, key, id), heap |-> h3]

\* Mutant: b.parts = [text] in place of b.parts.append(text).
_append_replace(key, text) ==
  LET fresh == key \notin DOMAIN _BUFFERS
      id == IF fresh THEN Len(bursts) + 1 ELSE _BUFFERS[key]
      h1 == IF fresh THEN Append(bursts, _Burst) ELSE bursts
      h2 == [h1 EXCEPT ![id].last_ts = now]
      h3 == IF text # <<>>
            THEN [h2 EXCEPT ![id].parts = <<Take(text, MAX_COMBINED_CHARS)>>]
            ELSE h2
  IN [bufs |-> IF fresh THEN Put(_BUFFERS, key, id) ELSE _BUFFERS, heap |-> h3]

_append(key, text) ==
  LET fresh == key \notin DOMAIN _BUFFERS
      id == IF fresh THEN Len(bursts) + 1 ELSE _BUFFERS[key]
      h1 == IF fresh THEN Append(bursts, _Burst) ELSE bursts
      b1 == IF fresh THEN Put(_BUFFERS, key, id) ELSE _BUFFERS
      h2 == [h1 EXCEPT ![id].last_ts = now]
      h3 == IF text # <<>>
            THEN [h2 EXCEPT ![id].parts = Append(@, Take(text, MAX_COMBINED_CHARS))]
            ELSE h2
  IN [bufs |-> b1, heap |-> h3]

\* Mutant: "".join(parts), the separator forgotten.
_combine_nosep(b) ==
  LET s == Strip(Concat(b.parts))
  IN IF Len(s) > MAX_COMBINED_CHARS THEN Take(s, MAX_COMBINED_CHARS) ELSE s

\* Mutant: the join is not stripped.
_combine_nostrip(b) ==
  LET s == Join(b.parts)
  IN IF Len(s) > MAX_COMBINED_CHARS THEN Take(s, MAX_COMBINED_CHARS) ELSE s

\* Mutant: the join is returned whole.
_combine_nocut(b) == Strip(Join(b.parts))

_combine(b) ==
  LET s == Strip(Join(b.parts))
  IN IF Len(s) > MAX_COMBINED_CHARS THEN Take(s, MAX_COMBINED_CHARS) ELSE s

\* Mutant: the check without the write (the timestamp left to be recorded later).
_can_dm_check_only(user_id) ==
  [ret |-> now - Get(_COOLDOWN, user_id, 0) >= COOLDOWN_SECONDS, cd |-> _COOLDOWN]

\* Mutant: the time of the request is recorded whether or not it is granted.
_can_dm_stamp_always(user_id) ==
  [ret |-> now - Get(_COOLDOWN, user_id, 0) >= COOLDOWN_SECONDS,
   cd |-> Put(_COOLDOWN, user_id, now)]

_can_dm(user_id) ==
  LET last == Get(_COOLDOWN, user_id, 0)
  IN IF now - last >= COOLDOWN_SECONDS
     THEN [ret |-> TRUE, cd |-> Put(_COOLDOWN, user_id, now)]
     ELSE [ret |-> FALSE, cd |-> _COOLDOWN]

----------------------------------------------------------------------------
(* Tasks *)

\* pc: where the coroutine is suspended.  "new": created, not yet run;
\* "sleep": in asyncio.sleep(0.1) until `wake`; "classify", "tip", "send": in
\* the await of ai.classify_harm, ai.coaching_tip, msg.author.send.
\* History: `calls` lists what the coroutine has invoked so far ("classify",
\* "heuristic", "policy", "can_dm", "tip", "send"), `ans` is what the await of
\* the classifier gave; `window` and `ctx_lines` are the locals of lines 183-190.

\* Mutant: the coroutine is run up to its classifier call by the caller.
NewTask_inline(key, msg) ==
  [key |-> key, msg |-> msg, pc |-> "classify", b |-> 0, wake |-> 0,
   text |-> msg.content, harm |-> NoHarm, out |-> "", calls |-> <<"classify">>,
   ans |-> NoAnswer, window |-> <<>>, ctx_lines |-> <<>>]

NewTask(key, msg) ==
  [key |-> key, msg |-> msg, pc |-> "new", b |-> 0, wake |-> 0,
   text |-> <<>>, harm |-> NoHarm, out |-> "", calls |-> <<>>, ans |-> NoAnswer,
   window |-> <<>>, ctx_lines |-> <<>>]

\* Task.done()
Done(tk) == tk.pc \in {"done", "cancelled"}

\* Task.cancel(): CancelledError is raised at the await the task is suspended in
\* (or before its first step); no handler of the coroutine catches it.
Cancel(ts, t) ==
  IF Done(ts[t]) THEN ts ELSE [ts EXCEPT ![t].pc = "cancelled", ![t].wake = 0]

\* The coroutine returns; `out` names the return.
Return(tk, out) == [tk EXCEPT !.pc = "done", !.wake = 0, !.out = out]

\* Mutant: the pending task is not cancelled.
Schedule_nocancel(bufs, heap, ts, key, msg) ==
  [heap |-> [heap EXCEPT ![bufs[key]].task = Len(ts) + 1],
   tasks |-> Append(ts, NewTask(key, msg))]

\* Mutant: every unfinished task of the key is cancelled, not b.task alone.
Schedule_cancel_key(bufs, heap, ts, key, msg) ==
  [heap |-> [heap EXCEPT ![bufs[key]].task = Len(ts) + 1],
   tasks |-> Append([t \in 1..Len(ts) |->
                       IF ts[t].key = key /\ ~Done(ts[t]) THEN Cancel(ts, t)[t]
                       ELSE ts[t]],
                    NewTask(key, msg))]

\* Mutant: the new task is not kept in b.task.
Schedule_untracked(bufs, heap, ts, key, msg) ==
  [heap |-> heap,
   tasks |-> Append(IF heap[bufs[key]].task # 0 /\ ~Done(ts[heap[bufs[key]].task])
                    THEN Cancel(ts, heap[bufs[key]].task) ELSE ts,
                    NewTask(key, msg))]

\* Mutant: a task is created only for a burst that never had one.
Schedule_no_rearm(bufs, heap, ts, key, msg) ==
  LET b == bufs[key]
      old == heap[b].task
  IN IF old = 0
     THEN [heap |-> [heap EXCEPT ![b].task = Len(ts) + 1],
           tasks |-> Append(ts, NewTask(key, msg))]
     ELSE [heap |-> heap,
           tasks |-> IF Done(ts[old]) THEN ts ELSE Cancel(ts, old)]

\* lines 245-248: cancel the burst's pending task, create the new one
Schedule(bufs, heap, ts, key, msg) ==
  LET id == bufs[key]
      old == heap[id].task
      ts1 == IF old # 0 /\ ~Done(ts[old]) THEN Cancel(ts, old) ELSE ts
  IN [heap |-> [heap EXCEPT ![id].task = Len(ts) + 1],
      tasks |-> Append(ts1, NewTask(key, msg))]

\* Mutant: _BUFFERS.get(key) in place of _BUFFERS.pop(key, None).
Pop_keeps(key) == [b |-> Get(_BUFFERS, key, 0), bufs |-> _BUFFERS]

\* Mutant: _BUFFERS.clear() after the lookup.
Pop_clear(key) == [b |-> Get(_BUFFERS, key, 0), bufs |-> <<>>]

\* _BUFFERS.pop(key, None): b = 0 stands for None.
Pop(key) == [b |-> Get(_BUFFERS, key, 0), bufs |-> Del(_BUFFERS, key)]

\* Mutant: the quiet period measured from first_ts.
LoopBreak_first(b) ==
  \/ now - b.first_ts >= DEBOUNCE_SECONDS
  \/ now - b.first_ts >= MAX_BURST_SECONDS

\* The loop condition of the finalize wait (lines 172-175).
LoopBreak(b) ==
  \/ now - b.last_ts >= DEBOUNCE_SECONDS
  \/ now - b.first_ts >= MAX_BURST_SECONDS

\* Mutant: the cooldown is consumed before the policy gate is asked.
Decide_consume_first(tk, harm0) ==
  LET asked == cfg.harm_detector \in {"heuristic", "hybrid"} /\ ~harm0.is_harmful
      harm == IF asked /\ _heuristic_harmful(tk.text) THEN KeywordHarm ELSE harm0
      r == _can_dm(ToString(tk.msg.author))
      c1 == Append(IF asked THEN Append(tk.calls, "heuristic") ELSE tk.calls, "policy")
      t1 == [tk EXCEPT !.harm = harm, !.calls = c1]
  IN IF ~_passes_policy(harm)
     THEN [task |-> Return(t1, "nopolicy"), cd |-> r.cd, dms |-> dms]
     ELSE [task |-> IF r.ret
                    THEN [t1 EXCEPT !.pc = "tip", !.calls = c1 \o <<"can_dm", "tip">>]
                    ELSE Return([t1 EXCEPT !.calls = Append(c1, "can_dm")], "cooldown"),
           cd |-> r.cd,
           dms |-> Append(dms, [uid |-> ToString(tk.msg.author), at |-> now, b |-> tk.b,
                                afterFailure |-> FALSE,
                                had |-> ToString(tk.msg.author) \in DOMAIN _COOLDOWN,
                                prev |-> Get(_COOLDOWN, ToString(tk.msg.author), 0),
                                ret |-> r.ret, before |-> _COOLDOWN, after |-> r.cd])]

\* Mutant: the heuristic is asked whatever the classifier answered.
Decide_heuristic_always(tk, harm0) ==
  LET asked == cfg.harm_detector \in {"heuristic", "hybrid"}
      harm == IF asked /\ _heuristic_harmful(tk.text) THEN KeywordHarm ELSE harm0
      uid == ToString(tk.msg.author)
      r == _can_dm(uid)
      c1 == Append(IF asked THEN Append(tk.calls, "heuristic") ELSE tk.calls, "policy")
      t1 == [tk EXCEPT !.harm = harm, !.calls = c1]
      t2 == [t1 EXCEPT !.calls = Append(c1, "can_dm")]
  IN IF ~_passes_policy(harm)
     THEN [task |-> Return(t1, "nopolicy"), cd |-> _COOLDOWN, dms |-> dms]
     ELSE [task |-> IF r.ret
                    THEN [t2 EXCEPT !.pc = "tip", !.calls = Append(@, "tip")]
                    ELSE Return(t2, "cooldown"),
           cd |-> r.cd,
           dms |-> Append(dms, [uid |-> uid, at |-> now, b |-> tk.b,
                                afterFailure |->
                                  \E t \in 1..Len(tasks) :
                                    /\ tasks[t].msg.author = tk.msg.author
                                    /\ tasks[t].out \in {"tipfail", "sendfail"},
                                had |-> uid \in DOMAIN _COOLDOWN,
                                prev |-> Get(_COOLDOWN, uid, 0),
                                ret |-> r.ret, before |-> _COOLDOWN, after |-> r.cd])]

\* Mutant: the answer of _can_dm is not looked at.
Decide_ignore_cooldown(tk, harm0) ==
  LET asked == cfg.harm_detector \in {"heuristic", "hybrid"} /\ ~harm0.is_harmful
      harm == IF asked /\ _heuristic_harmful(tk.text) THEN KeywordHarm ELSE harm0
      r == _can_dm(ToString(tk.msg.author))
      c1 == Append(IF asked THEN Append(tk.calls, "heuristic") ELSE tk.calls, "policy")
      t1 == [tk EXCEPT !.harm = harm, !.calls = c1]
  IN IF ~_passes_policy(harm)
     THEN [task |-> Return(t1, "nopolicy"), cd |-> _COOLDOWN, dms |-> dms]
     ELSE [task |-> [t1 EXCEPT !.pc = "tip", !.calls = c1 \o <<"can_dm", "tip">>],
           cd |-> r.cd,
           dms |-> Append(dms, [uid |-> ToString(tk.msg.author), at |-> now, b |-> tk.b,
                                afterFailure |-> FALSE,
                                had |-> ToString(tk.msg.author) \in DOMAIN _COOLDOWN,
                                prev |-> Get(_COOLDOWN, ToString(tk.msg.author), 0),
                                ret |-> r.ret, before |-> _COOLDOWN, after |-> r.cd])]

\* Mutant: the heuristic is asked whenever the remote Verdict does not qualify.
Decide_second_opinion(tk, harm0) ==
  LET asked == cfg.harm_detector \in {"heuristic", "hybrid"} /\ ~_passes_policy(harm0)
      harm == IF asked /\ _heuristic_harmful(tk.text) THEN KeywordHarm ELSE harm0
      uid == ToString(tk.msg.author)
      r == _can_dm(uid)
      c1 == Append(IF asked THEN Append(tk.calls, "heuristic") ELSE tk.calls, "policy")
      t1 == [tk EXCEPT !.harm = harm, !.calls = c1]
      t2 == [t1 EXCEPT !.calls = Append(c1, "can_dm")]
  IN IF ~_passes_policy(harm)
     THEN [task |-> Return(t1, "nopolicy"), cd |-> _COOLDOWN, dms |-> dms]
     ELSE [task |-> IF r.ret
                    THEN [t2 EXCEPT !.pc = "tip", !.calls = Append(@, "tip")]
                    ELSE Return(t2, "cooldown"),
           cd |-> r.cd,
           dms |-> Append(dms, [uid |-> uid, at |-> now, b |-> tk.b,
                                afterFailure |->
                                  \E t \in 1..Len(tasks) :
                                    /\ tasks[t].msg.author = tk.msg.author
                                    /\ tasks[t].out \in {"tipfail", "sendfail"},
                                had |-> uid \in DOMAIN _COOLDOWN,
                                prev |-> Get(_COOLDOWN, uid, 0),
                                ret |-> r.ret, before |-> _COOLDOWN, after |-> r.cd])]

\* Lines 196-220 after the classifier answered `harm0`: heuristic, policy, cooldown.
Decide(tk, harm0) ==
  LET asked == cfg.harm_detector \in {"heuristic", "hybrid"} /\ ~harm0.is_harmful
      harm == IF asked /\ _heuristic_harmful(tk.text) THEN KeywordHarm ELSE harm0
      uid == ToString(tk.msg.author)
      r == _can_dm(uid)
      c1 == Append(IF asked THEN Append(tk.calls, "heuristic") ELSE tk.calls, "policy")
      t1 == [tk EXCEPT !.harm = harm, !.calls = c1]
      t2 == [t1 EXCEPT !.calls = Append(c1, "can_dm")]
  IN IF ~_passes_policy(harm)
     THEN [task |-> Return(t1, "nopolicy"), cd |-> _COOLDOWN, dms |-> dms]
     ELSE [task |-> IF r.ret
                    THEN [t2 EXCEPT !.pc = "tip", !.calls = Append(@, "tip")]
                    ELSE Return(t2, "cooldown"),
           cd |-> r.cd,
           dms |-> Append(dms, [uid |-> uid, at |-> now, b |-> tk.b,
                                afterFailure |->
                                  \E t \in 1..Len(tasks) :
                                    /\ tasks[t].msg.author = tk.msg.author
                                    /\ tasks[t].out \in {"tipfail", "sendfail"},
                                had |-> uid \in DOMAIN _COOLDOWN,
                                prev |-> Get(_COOLDOWN, uid, 0),
                                ret |-> r.ret, before |-> _COOLDOWN, after |-> r.cd])]

----------------------------------------------------------------------------
(* Consent and the context store *)

\* client.user, the account the bot itself writes from.
client_user == 9

\* load_consents(): the ids of the consent file and those of CONSENT_AUTOFILL,
\* each a str.
load_consents == consents \cup env.autofill

has_consented_all(user_id) == TRUE

has_consented(user_id) == user_id \in load_consents

\* _save_file(ids): the ids of CONSENT_AUTOFILL are not written to the file.
_save_file(ids) == ids \ env.autofill

\* _ContextStore(max_per_channel): 50 in the source.
max_per_channel == 3

\* limit of the window on_message builds its context lines from: 15 in the source.
CONTEXT_LIMIT == 2

\* core.context.Msg
CtxMsg(author_id, content) == [author_id |-> author_id, content |-> content]

\* deque(maxlen = max_per_channel).append(entry)
\* Mutant: a full deque refuses the new entry.
append_drop_newest(q, entry) ==
  IF Len(q) >= max_per_channel THEN q ELSE Append(q, entry)

append(q, entry) ==
  IF Len(q) >= max_per_channel THEN Append(Tail(q), entry) ELSE Append(q, entry)

\* _ContextStore.add: guild 0 stands for None.
add(buf, guild_id, channel_id, author_id, content) ==
  Put(buf, <<guild_id, channel_id>>,
      append(Get(buf, <<guild_id, channel_id>>, <<>>), CtxMsg(author_id, content)))

\* q[start:] of a Python list, for any integer start.
SliceFrom(q, start) ==
  SubSeq(q,
         1 + (IF start < 0
              THEN (IF start + Len(q) < 0 THEN 0 ELSE start + Len(q))
              ELSE (IF start > Len(q) THEN Len(q) ELSE start)),
         Len(q))

\* Mutant: self._buf[key] in place of self._buf.get(key): the defaultdict makes
\* an empty deque for a key it does not have.
_buf_getitem(buf, key) == IF key \in DOMAIN buf THEN buf ELSE Put(buf, key, <<>>)

\* The store after self._buf.get(key), line 29: dict.get adds no key, also to a
\* defaultdict, and list(q)[-limit:] copies.
_buf_get(buf, key) == buf

\* _ContextStore.window
window(buf, guild_id, channel_id, limit) ==
  IF Get(buf, <<guild_id, channel_id>>, <<>>) = <<>>
  THEN <<>>
  ELSE SliceFrom(buf[<<guild_id, channel_id>>], 0 - limit)

\* The length a context line is cut to: 200 in the source.
LINE_CHARS == 3

\* The character U+2026, by its name.
Ellipsis == "ellipsis"

\* str.replace(old, new) for single characters
Replace(s, old, new) == [i \in 1..Len(s) |-> IF s[i] = old THEN new ELSE s[i]]

\* Mutant: the line is cut without the mark.
CutLine_nomark(line) == Take(line, LINE_CHARS)

\* if len(line) > 200: line = line[:200] + U+2026
CutLine(line) ==
  IF Len(line) > LINE_CHARS THEN Append(Take(line, LINE_CHARS), Ellipsis) ELSE line

WHO_YOU == <<"Y", "o", "u">>
WHO_OTHER == <<"O", "t", "h", "e", "r">>

\* One turn of the loop over the window: f"{who}: {line}" for the entry m, seen
\* from the author author_id.
ContextLine(m, author_id) ==
  (IF m.author_id = author_id THEN WHO_YOU ELSE WHO_OTHER) \o <<":", " ">>
    \o CutLine(Replace(Strip(m.content), "\n", " "))

\* The loop over a window w.
ContextLines(w, author_id) == [i \in 1..Len(w) |-> ContextLine(w[i], author_id)]

\* _build_context_lines(message, limit) of bot.py for a message that replies to
\* none.
_build_context_lines(buf, message, limit) ==
  ContextLines(window(buf, message.guild, message.channel, limit), message.author)

----------------------------------------------------------------------------
(* Actions *)

NoHist == [msgs |-> <<>>, last |-> 0]

\* The last removal of a burst of `key`, as a set of at most one record.
LastPop(key) ==
  LET idx == {i \in 1..Len(pops) : pops[i].key = key}
  IN {pops[i] : i \in {j \in idx : \A k \in idx : k <= j}}

\* Mutant: a message without text raises.
detect_and_handle_harmful_strict(m) ==
  /\ m.content # <<>>
  /\ UNCHANGED <<_COOLDOWN, pops, dms>>
  /\ UNCHANGED <<_BUFFERS, bursts, tasks, hist, meta>>

\* Mutant: only the author is looked at, a message without text is taken in.
detect_and_handle_harmful_notext(m) ==
  /\ UNCHANGED <<_COOLDOWN, pops, dms>>
  /\ IF m.bot
     THEN UNCHANGED <<_BUFFERS, bursts, tasks, hist, meta>>
     ELSE LET key == _key(m)
              r == _append(key, m.content)
              s == Schedule(r.bufs, r.heap, tasks, key, m)
              h == Get(hist, key, NoHist)
          IN /\ _BUFFERS' = r.bufs
             /\ bursts' = s.heap
             /\ tasks' = s.tasks
             /\ hist' = Put(hist, key, [msgs |-> Append(h.msgs, m.content), last |-> now])
             /\ meta' = IF Len(r.heap) > Len(bursts)
                        THEN Append(meta, [key |-> key, live |-> TRUE, born |-> now,
                                           from |-> Len(h.msgs) + 1,
                                           hasPrev |-> h.msgs # <<>>,
                                           gap |-> now - h.last, maxGap |-> 0,
                                           prevCapped |-> \E p \in LastPop(key) : p.capped])
                        ELSE [meta EXCEPT ![r.bufs[key]].maxGap =
                                IF now - h.last > @ THEN now - h.last ELSE @]

\* detect_and_handle_harmful(message), lines 236-248: there is no await in it, so
\* the whole call is one step of the event loop.
detect_and_handle_harmful(m) ==
  /\ UNCHANGED <<_COOLDOWN, pops, dms>>
  /\ IF m.content = <<>> \/ m.bot
     THEN UNCHANGED <<_BUFFERS, bursts, tasks, hist, meta>>
     ELSE LET key == _key(m)
              r == _append(key, m.content)
              s == Schedule(r.bufs, r.heap, tasks, key, m)
              h == Get(hist, key, NoHist)
          IN /\ _BUFFERS' = r.bufs
             /\ bursts' = s.heap
             /\ tasks' = s.tasks
             /\ hist' = Put(hist, key, [msgs |-> Append(h.msgs, m.content), last |-> now])
             /\ meta' = IF Len(r.heap) > Len(bursts)
                        THEN Append(meta, [key |-> key, live |-> TRUE, born |-> now,
                                           from |-> Len(h.msgs) + 1,
                                           hasPrev |-> h.msgs # <<>>,
                                           gap |-> now - h.last, maxGap |-> 0,
                                           prevCapped |-> \E p \in LastPop(key) : p.capped])
                        ELSE [meta EXCEPT ![r.bufs[key]].maxGap =
                                IF now - h.last > @ THEN now - h.last ELSE @]

\* A call of detect_and_handle_harmful(message) for a message of the environment.
Ingest(m) ==
  /\ budget > 0
  /\ env.ties \/ \A t \in 1..Len(tasks) : tasks[t].pc = "sleep" => tasks[t].wake > now
  /\ budget' = budget - 1
  /\ UNCHANGED <<front, now, cfg, env>>
  /\ detect_and_handle_harmful(m)

\* The first step of _process_after_delay (lines 165-171).
Start(t) ==
  /\ tasks[t].pc = "new"
  /\ tasks' = IF tasks[t].key \in DOMAIN _BUFFERS
              THEN [tasks EXCEPT ![t].pc = "sleep", ![t].b = _BUFFERS[tasks[t].key],
                                 ![t].wake = now + POLL]
              ELSE [tasks EXCEPT ![t] = Return(@, "noburst")]
  /\ UNCHANGED <<front, now, cfg, env, budget, _BUFFERS, _COOLDOWN, bursts, hist, meta, pops, dms>>

\* Lines 177-220: pop the burst, combine, classify (or decide at once).
Finalize(t) ==
  LET key == tasks[t].key
      p == Pop(key)
      id == p.b
      has == id # 0
      text == _combine(bursts[id])
      tk == [tasks[t] EXCEPT
               !.text = text,
               !.window = window(_buf, tasks[t].msg.guild, tasks[t].msg.channel,
                                 CONTEXT_LIMIT),
               !.ctx_lines =
                 ContextLines(window(_buf, tasks[t].msg.guild, tasks[t].msg.channel,
                                     CONTEXT_LIMIT),
                              tasks[t].msg.author)]
      d == Decide(tk, NoHarm)
      inline == has /\ text # <<>> /\ cfg.harm_detector \notin {"azure", "hybrid"}
  IN /\ _BUFFERS' = p.bufs
     /\ tasks' = [tasks EXCEPT ![t] =
                    IF ~has THEN Return(@, "nopop")
                    ELSE IF text = <<>> THEN Return(@, "empty")
                    ELSE IF inline THEN d.task
                    ELSE [tk EXCEPT !.pc = "classify", !.calls = Append(@, "classify")]]
     /\ _COOLDOWN' = IF inline THEN d.cd ELSE _COOLDOWN
     /\ dms' = IF inline THEN d.dms ELSE dms
     /\ meta' = IF has THEN [meta EXCEPT ![id].live = FALSE] ELSE meta
     /\ pops' = IF has
                THEN Append(pops, [b |-> id, t |-> t, key |-> key, at |-> now,
                                   sinceLast |-> now - Get(hist, key, NoHist).last,
                                   age |-> now - meta[id].born,
                                   capped |-> now - meta[id].born >= MAX_BURST_SECONDS,
                                   parts |-> bursts[id].parts, text |-> text,
                                   upto |-> Len(Get(hist, key, NoHist).msgs)])
                ELSE pops
     /\ UNCHANGED <<front, now, cfg, env, budget, bursts, hist>>

\* asyncio.sleep(0.1) is over: one turn of the loop of lines 170-175.
Wake(t) ==
  /\ tasks[t].pc = "sleep"
  /\ now >= tasks[t].wake
  /\ IF LoopBreak(bursts[tasks[t].b])
     THEN Finalize(t)
     ELSE /\ tasks' = [tasks EXCEPT ![t].wake = now + POLL]
          /\ UNCHANGED <<front, now, cfg, env, budget, _BUFFERS, _COOLDOWN, bursts, hist,
                         meta, pops, dms>>

\* Mutant: the harmful Verdict of an earlier burst is used again.
Classified_cached(t, r) ==
  /\ tasks[t].pc = "classify"
  /\ LET seen == {u \in 1..Len(tasks) : tasks[u].pc = "done" /\ tasks[u].harm.is_harmful}
         d == Decide([tasks[t] EXCEPT !.ans = r],
                     IF seen # {} THEN tasks[CHOOSE u \in seen : TRUE].harm
                     ELSE IF r.raise THEN NoHarm ELSE r.harm)
     IN /\ tasks' = [tasks EXCEPT ![t] = d.task]
        /\ _COOLDOWN' = d.cd
        /\ dms' = d.dms
  /\ UNCHANGED <<front, now, cfg, env, budget, _BUFFERS, bursts, hist, meta, pops>>

\* asyncio.to_thread(ai.classify_harm, ...) returns r.harm, or raises (r.raise),
\* which leaves harm at its initial value (line 197).
Classified(t, r) ==
  /\ tasks[t].pc = "classify"
  /\ LET d == Decide([tasks[t] EXCEPT !.ans = r], IF r.raise THEN NoHarm ELSE r.harm)
     IN /\ tasks' = [tasks EXCEPT ![t] = d.task]
        /\ _COOLDOWN' = d.cd
        /\ dms' = d.dms
  /\ UNCHANGED <<front, now, cfg, env, budget, _BUFFERS, bursts, hist, meta, pops>>

\* asyncio.to_thread(ai.coaching_tip, ...) returns (ok) or raises.
TipDone(t, ok) ==
  /\ tasks[t].pc = "tip"
  /\ tasks' = [tasks EXCEPT ![t] = IF ok THEN [@ EXCEPT !.pc = "send",
                                                          !.calls = Append(@, "send")]
                                    ELSE Return(@, "tipfail")]
  /\ UNCHANGED <<front, now, cfg, env, budget, _BUFFERS, _COOLDOWN, bursts, hist, meta, pops,
                 dms>>

\* Mutant: a failed delivery is tried again.
SendDone_retry(t, ok) ==
  /\ tasks[t].pc = "send"
  /\ tasks' = [tasks EXCEPT ![t] =
                 IF ok THEN Return(@, "sent")
                 ELSE IF Len(@.calls) < 8 THEN [@ EXCEPT !.calls = Append(@, "send")]
                 ELSE Return(@, "sendfail")]
  /\ UNCHANGED <<front, now, cfg, env, budget, _BUFFERS, _COOLDOWN, bursts, hist, meta, pops,
                 dms>>

\* Mutant: a failed delivery gives the cooldown back.
SendDone_rollback(t, ok) ==
  /\ tasks[t].pc = "send"
  /\ tasks' = [tasks EXCEPT ![t] = Return(@, IF ok THEN "sent" ELSE "sendfail")]
  /\ _COOLDOWN' = IF ok THEN _COOLDOWN ELSE Del(_COOLDOWN, ToString(tasks[t].msg.author))
  /\ UNCHANGED <<front, now, cfg, env, budget, _BUFFERS, bursts, hist, meta, pops, dms>>

\* msg.author.send(...) returns (ok) or raises.
SendDone(t, ok) ==
  /\ tasks[t].pc = "send"
  /\ tasks' = [tasks EXCEPT ![t] = Return(@, IF ok THEN "sent" ELSE "sendfail")]
  /\ UNCHANGED <<front, now, cfg, env, budget, _BUFFERS, _COOLDOWN, bursts, hist, meta, pops,
                 dms>>

Sleeping == {t \in 1..Len(tasks) : tasks[t].pc = "sleep"}

\* Time passes: one tick while a sleep is pending, or, when none is, a jump to
\* one of the later times env.jumps.  The event loop runs what is ready first: a
\* task just created takes its first step, and a sleep that is over returns,
\* before the clock moves.
Advance ==
  /\ \A t \in 1..Len(tasks) : tasks[t].pc # "new"
  /\ \A t \in Sleeping : tasks[t].wake > now
  /\ \E t2 \in (IF Sleeping # {} THEN {now + 1} ELSE {j \in env.jumps : j > now}) :
       now' = t2
  /\ UNCHANGED <<front, cfg, env, budget, _BUFFERS, _COOLDOWN, bursts, tasks, hist, meta, pops,
                 dms>>

Next ==
  \/ \E m \in env.feed : Ingest(m)
  \/ \E t \in 1..Len(tasks) : Start(t)
  \/ \E t \in 1..Len(tasks) : Wake(t)
  \/ \E t \in 1..Len(tasks) : \E r \in env.answers : Classified(t, r)
  \/ \E t \in 1..Len(tasks) : \E ok \in BOOLEAN : TipDone(t, ok)
  \/ \E t \in 1..Len(tasks) : \E ok \in BOOLEAN : SendDone(t, ok)
  \/ Advance

\* No call of ctx_store.window was made yet.
NoSnap == [key |-> <<0, 0>>, limit |-> 0, known |-> FALSE, stored |-> <<>>, got |-> <<>>]

\* The record of a call of ctx_store.window.
Snap(guild_id, channel_id, limit) ==
  [key |-> <<guild_id, channel_id>>, limit |-> limit,
   known |-> <<guild_id, channel_id>> \in DOMAIN _buf,
   stored |-> Get(_buf, <<guild_id, channel_id>>, <<>>),
   got |-> window(_buf, guild_id, channel_id, limit)]

\* on_message(message) up to its first await (lines 245-277): the two checks, the
\* context store and the context lines. A call that returns at a check is kept
\* with the check it returned at.
OnMessage(m) ==
  /\ budget > 0
  /\ budget' = budget - 1
  /\ IF m.author = client_user
     THEN /\ handlers' = Append(handlers, [msg |-> m, pc |-> "done", out |-> "self",
                                           consented |-> ToString(m.author) \in load_consents,
                                           context_lines |-> <<>>])
          /\ UNCHANGED <<_buf, snap>>
     ELSE IF ~has_consented(ToString(m.author))
     THEN /\ handlers' = Append(handlers, [msg |-> m, pc |-> "done", out |-> "noconsent",
                                           consented |-> ToString(m.author) \in load_consents,
                                           context_lines |-> <<>>])
          /\ UNCHANGED <<_buf, snap>>
     ELSE /\ _buf' = add(_buf, m.guild, m.channel, m.author, m.content)
          /\ snap' = [Snap(m.guild, m.channel, CONTEXT_LIMIT)
                        EXCEPT !.stored = _buf'[<<m.guild, m.channel>>],
                               !.known = TRUE,
                               !.got = window(_buf', m.guild, m.channel, CONTEXT_LIMIT)]
          /\ handlers' = Append(handlers,
                                [msg |-> m, pc |-> "sentiment", out |-> "",
                                 consented |-> ToString(m.author) \in load_consents,
                                 context_lines |->
                                   _build_context_lines(_buf', m, CONTEXT_LIMIT)])
  /\ UNCHANGED <<now, cfg, env, consents, _BUFFERS, _COOLDOWN, bursts, tasks, hist, meta,
                 pops, dms>>

\* on_message after analyze_sentiment returned (lines 277-285): log_mood, which
\* raises when the mood log file holds JSON that is not a list, then
\* detect_and_handle_harmful, which runs to its end without an await.
Resume(h, logged) ==
  /\ handlers[h].pc = "sentiment"
  /\ env.ties \/ \A t \in 1..Len(tasks) : tasks[t].pc = "sleep" => tasks[t].wake > now
  /\ UNCHANGED <<now, cfg, env, budget, consents, _buf, snap>>
  /\ IF logged
     THEN /\ handlers' = [handlers EXCEPT ![h].pc = "done", ![h].out = "ingested"]
          /\ detect_and_handle_harmful(handlers[h].msg)
     ELSE /\ handlers' = [handlers EXCEPT ![h].pc = "done", ![h].out = "log_mood"]
          /\ UNCHANGED <<_BUFFERS, _COOLDOWN, bursts, tasks, hist, meta, pops, dms>>

\* /consent: add_consent(user_id)
add_consent(user_id) ==
  /\ consents' = _save_file(load_consents \cup {user_id})
  /\ UNCHANGED <<now, cfg, env, budget, _buf, handlers, snap, _BUFFERS, _COOLDOWN,
                 bursts, tasks, hist, meta, pops, dms>>

\* /logout: remove_consent(user_id)
remove_consent(user_id) ==
  /\ consents' = IF user_id \in load_consents
                 THEN _save_file(load_consents \ {user_id}) ELSE consents
  /\ UNCHANGED <<now, cfg, env, budget, _buf, handlers, snap, _BUFFERS, _COOLDOWN,
                 bursts, tasks, hist, meta, pops, dms>>

\* ctx_store.window(guild_id, channel_id, limit) called with any limit.
Snapshot(guild_id, channel_id, limit) ==
  /\ snap' = Snap(guild_id, channel_id, limit)
  /\ _buf' = _buf_get(_buf, <<guild_id, channel_id>>)
  /\ UNCHANGED <<now, cfg, env, budget, consents, handlers, _BUFFERS, _COOLDOWN,
                 bursts, tasks, hist, meta, pops, dms>>

----------------------------------------------------------------------------
(* Specifications *)

Verdict(h, sev) == [is_harmful |-> h, severity |-> sev, language |-> "en", reason |-> "r"]
Returns(harm) == [raise |-> FALSE, harm |-> harm, reply |-> NoReply]
Raises == [raise |-> TRUE, harm |-> NoHarm, reply |-> NoReply]

\* The await of line 200 when the endpoint replied `reply`.
Answers(reply) == [raise |-> FALSE, harm |-> classify_harm(reply), reply |-> reply]

\* The monitor before any message: nothing buffered, no task, no cooldown entry.
InitBack(start, e, c, n) ==
  /\ now = start
  /\ cfg = c
  /\ env = e
  /\ budget = n
  /\ _BUFFERS = <<>>
  /\ _COOLDOWN = <<>>
  /\ bursts = <<>>
  /\ tasks = <<>>
  /\ hist = <<>>
  /\ meta = <<>>
  /\ pops = <<>>
  /\ dms = <<>>

\* on_message and the context store before any message, with the consent file
\* holding the ids `file`.
InitFront(file) ==
  /\ consents = file
  /\ _buf = <<>>
  /\ handlers = <<>>
  /\ snap = NoSnap

InitWith(start, e, c, n) ==
  /\ InitBack(start, e, c, n)
  /\ InitFront({})

\* The settings read from the environment: HARM_DETECTOR and HARM_SEVERITY_MIN of
\* core.config, and AR_DIALECT_ENABLED of monitor.py at its default.
Cfg(detector, severity_min) ==
  [harm_detector |-> detector, harm_severity_min |-> severity_min,
   ar_dialect_enabled |-> TRUE]

Env(feed, answers, jumps, ties) ==
  [feed |-> feed, answers |-> answers, jumps |-> jumps, ties |-> ties]

\* The whole monitor with the remote classifier: one author writing in two
\* channels, a clock (time.time()) that starts at 0 or at StartTime and may jump
\* to 500 s and to 650 s after its start.
Init ==
  \E start \in {0, StartTime} :
    InitWith(start,
             Env({Msg(1, 1, 1, A, FALSE), Msg(1, 2, 1, A, FALSE)},
                 {Returns(Verdict(TRUE, "high")), Raises},
                 {start + 500 * TicksPerSecond, start + 650 * TicksPerSecond}, TRUE),
             Cfg("azure", "medium"), DmMsgs)

Spec == Init /\ [][Next]_vars

\* The burst aggregator alone: with the heuristic detector and minimum severity
\* high no burst qualifies, every finalize task returns at line 213, and the
\* steps after the cooldown gate cannot occur.
NextBurst ==
  \/ \E m \in env.feed : Ingest(m)
  \/ \E t \in 1..Len(tasks) : Start(t)
  \/ \E t \in 1..Len(tasks) : Wake(t)
  \/ Advance

InitBurst ==
  InitWith(StartTime,
           Env({Msg(1, 1, 1, A, FALSE), Msg(1, 1, 1, LONG, FALSE),
                Msg(1, 1, 1, SP, FALSE), Msg(1, 1, 1, EMPTY, FALSE),
                Msg(0, 2, 2, A, FALSE)},
               {}, {}, TRUE),
           Cfg("heuristic", "high"), MaxMsgs)

SpecBurst == InitBurst /\ [][NextBurst]_vars

\* One key whose messages keep coming, never at the very instant a poll is due.
InitCap ==
  InitWith(StartTime, Env({Msg(1, 1, 1, A, FALSE)}, {}, {}, FALSE),
           Cfg("heuristic", "high"), CapMsgs)

SpecCap == InitCap /\ [][NextBurst]_vars

AuthorMsgs == 3

\* The whole monitor with two authors writing in one channel and a classifier
\* that finds every burst harmful.
InitAuthors ==
  InitWith(StartTime,
           Env({Msg(1, 1, 1, A, FALSE), Msg(1, 1, 2, A, FALSE)},
               {Returns(Verdict(TRUE, "high"))}, {}, TRUE),
           Cfg("azure", "medium"), AuthorMsgs)

SpecAuthors == InitAuthors /\ [][Next]_vars

SkipMsgs == 3

\* on_message in front of the aggregator, the mood log in order.
NextSkip ==
  \/ \E m \in env.feed : OnMessage(m)
  \/ \E h \in 1..Len(handlers) : Resume(h, TRUE)
  \/ \E t \in 1..Len(tasks) : Start(t)
  \/ \E t \in 1..Len(tasks) : Wake(t)
  \/ Advance

\* One channel in which user 1 sends a text and a message without text (an
\* attachment, say) and another bot, account 3, which is in the consent file too, sends
\* a text.
InitSkip ==
  /\ InitBack(StartTime,
              [feed |-> {Msg(1, 1, 1, A, FALSE), Msg(1, 1, 1, EMPTY, FALSE),
                         Msg(1, 1, 3, A, TRUE)},
               answers |-> {}, jumps |-> {}, ties |-> TRUE, users |-> {},
               autofill |-> {}],
              Cfg("heuristic", "high"), SkipMsgs)
  /\ InitFront({"1", "3"})

SpecSkip == InitSkip /\ [][NextSkip]_vars

PaceMsgs == 4

\* A message of the environment that comes no sooner than one poll period after
\* the last message of its key.
PacedIngest(m) ==
  /\ LET h == Get(hist, _key(m), NoHist)
     IN h.msgs = <<>> \/ now - h.last >= POLL
  /\ Ingest(m)

NextPace ==
  \/ \E m \in env.feed : PacedIngest(m)
  \/ \E t \in 1..Len(tasks) : Start(t)
  \/ \E t \in 1..Len(tasks) : Wake(t)
  \/ Advance

\* One key whose messages are at least one poll period apart; a message may come
\* at the instant a poll is due and be handled before the waiting task runs.
InitPace ==
  InitWith(StartTime, Env({Msg(1, 1, 1, A, FALSE)}, {}, {}, TRUE),
           Cfg("heuristic", "high"), PaceMsgs)

SpecPace == InitPace /\ [][NextPace]_vars

\* The aggregator under a fair event loop: a task that is ready to run runs, and
\* the clock moves on while a sleep is pending.
InitLive ==
  InitWith(StartTime,
           Env({Msg(1, 1, 1, A, FALSE), Msg(1, 2, 1, A, FALSE)}, {}, {}, TRUE),
           Cfg("heuristic", "high"), LiveMsgs)

\* A step of some task that is ready to run.
Run == \E t \in 1..Len(tasks) : Start(t) \/ Wake(t)

\* Some task is ready to run: ENABLED <<Run>>_vars, written out.
Ready ==
  \E t \in 1..Len(tasks) :
    tasks[t].pc = "new" \/ (tasks[t].pc = "sleep" /\ now >= tasks[t].wake)

\* Weak fairness of Run (with its enabling condition written out) and of Advance.
Fair ==
  /\ []<>(~Ready) \/ []<><<Run>>_vars
  /\ WF_vars(Advance)

SpecLive == InitLive /\ [][NextBurst]_vars /\ Fair

\* The replies of the chat endpoint the gate is run against.
Replies ==
  {Reply("json", h, sev) : h \in {"true", "false"},
                           sev \in {"\"low\"", "\"medium\"", "\"HIGH\""}}
    \cup {Reply("error", "absent", "absent"), Reply("text", "absent", "absent"),
          Reply("list", "absent", "absent"), Reply("json", "absent", "absent"),
          Reply("json", "\"false\"", "\"high\"")}

\* Classification, policy gate and delivery under every detector mode and
\* minimum severity, for one user whose messages may be harmless, hold a
\* keyword, or be blank.
InitGate ==
  \E detector \in {"azure", "heuristic", "hybrid"} :
    \E severity_min \in {"low", "medium", "high"} :
      InitWith(StartTime,
               Env({Msg(1, 1, 1, A, FALSE), Msg(1, 1, 1, LONG, FALSE),
                    Msg(1, 1, 1, SP, FALSE)},
                   {Answers(r) : r \in Replies} \cup {Raises}, {}, TRUE),
               Cfg(detector, severity_min), GateMsgs)

SpecGate == InitGate /\ [][Next]_vars

SupersedeMsgs == 3

\* The whole monitor for one key: three messages of one author in one channel,
\* a classifier that finds every burst harmful, and a clock without jumps.
InitSupersede ==
  InitWith(StartTime,
           Env({Msg(1, 1, 1, A, FALSE)}, {Returns(Verdict(TRUE, "high"))}, {}, TRUE),
           Cfg("azure", "medium"), SupersedeMsgs)

SpecSupersede == InitSupersede /\ [][Next]_vars

HeurMsgs == 1

\* The two texts of the heuristic-fallback example.
YouAreSoStupid ==
  <<"y", "o", "u", " ", "a", "r", "e", " ", "s", "o", " ", "s", "t", "u", "p", "i", "d">>
AntaGhabi ==
  <<"alef", "noon", "teh", " ", "ghain", "beh", "yeh">>
\* A direct-address pattern and nothing else.
YouRock ==
  <<"y", "o", "u", " ", "r", "o", "c", "k">>
\* A keyword and nothing else.
ShutUp ==
  <<"s", "h", "u", "t", " ", "u", "p">>
\* A misspelt keyword and nothing else.
Stubid ==
  <<"s", "t", "u", "b", "i", "d">>
\* An Arabic command after a name and nothing else.
AhmadKhalas ==
  <<"alef", "hah", "meem", "dal", " ", "khah", "lam", "sad">>
\* An Arabic keyword with a drawn-out letter.
Ghabiii ==
  <<"ghain", "beh", "yeh", "yeh", "yeh">>
\* An Arabic keyword written with Arabizi digits.
Arabizi ==
  <<"alef", "noon", "teh", " ", "8", "beh", "yeh", "7">>
\* Upper case.
YouAreDumb ==
  <<"Y", "O", "U", " ", "A", "R", "E", " ", "D", "U", "M", "B">>
\* No signal.
HelloThere ==
  <<"h", "e", "l", "l", "o", " ", "t", "h", "e", "r", "e">>
Marhaba ==
  <<"meem", "reh", "hah", "beh", "alef">>
YouAb1 ==
  <<"y", "o", "u", " ", "a", "b", "1">>

Texts ==
  {YouAreSoStupid, AntaGhabi, YouRock, ShutUp, Stubid, AhmadKhalas,
   Ghabiii, Arabizi, YouAreDumb, HelloThere, Marhaba, YouAb1}

\* Lines 192-220 for a Burst of the one message `content`, which is shorter than
\* MAX_COMBINED_CHARS of the deployment, so that neither cut applies.
Judge(content) ==
  LET msg == Msg(1, 1, 1, content, FALSE)
      text == Strip(content)
      tk == [NewTask(_key(msg), msg) EXCEPT !.text = text]
      inline == text # <<>> /\ cfg.harm_detector \notin {"azure", "hybrid"}
      d == Decide(tk, NoHarm)
  IN /\ budget > 0
     /\ budget' = budget - 1
     /\ tasks' = Append(tasks,
                   IF text = <<>> THEN Return(tk, "empty")
                   ELSE IF inline THEN d.task
                   ELSE [tk EXCEPT !.pc = "classify", !.calls = Append(@, "classify")])
     /\ _COOLDOWN' = IF inline THEN d.cd ELSE _COOLDOWN
     /\ dms' = IF inline THEN d.dms ELSE dms
     /\ UNCHANGED <<front, now, cfg, env, _BUFFERS, bursts, hist, meta, pops>>

NextHeuristic ==
  \/ \E content \in env.texts : Judge(content)
  \/ \E t \in 1..Len(tasks) : \E r \in env.answers : Classified(t, r)
  \/ \E t \in 1..Len(tasks) : \E ok \in BOOLEAN : TipDone(t, ok)
  \/ \E t \in 1..Len(tasks) : \E ok \in BOOLEAN : SendDone(t, ok)

\* The heuristic on texts of every kind of signal, with and without the remote
\* classifier, AR_DIALECT_ENABLED set either way.
InitHeuristic ==
  \E detector \in {"heuristic", "hybrid"} : \E dialect \in BOOLEAN :
    InitWith(StartTime,
             [feed |-> {}, answers |-> {Returns(Verdict(TRUE, "high")), Raises},
              jumps |-> {}, ties |-> TRUE, texts |-> Texts],
             [Cfg(detector, "medium") EXCEPT !.ar_dialect_enabled = dialect],
             HeurMsgs)

SpecHeuristic == InitHeuristic /\ [][NextHeuristic]_vars

MsgMsgs == 2
CtxMsgs == 4

\* on_message in front of the whole monitor.
NextMsg ==
  \/ \E m \in env.feed : OnMessage(m)
  \/ \E h \in 1..Len(handlers) : \E logged \in BOOLEAN : Resume(h, logged)
  \/ \E u \in env.users : add_consent(u)
  \/ \E u \in env.users : remove_consent(u)
  \/ \E t \in 1..Len(tasks) : Start(t)
  \/ \E t \in 1..Len(tasks) : Wake(t)
  \/ \E t \in 1..Len(tasks) : \E r \in env.answers : Classified(t, r)
  \/ \E t \in 1..Len(tasks) : \E ok \in BOOLEAN : TipDone(t, ok)
  \/ \E t \in 1..Len(tasks) : \E ok \in BOOLEAN : SendDone(t, ok)
  \/ Advance

\* Three accounts write in one channel: user 1, who is in the consent file and
\* sends a text or a message without text, user 2, who is not and sends a blank,
\* and the bot itself, whose id CONSENT_AUTOFILL names. Users 1 and 2 may opt in
\* and out at any time.
InitMsg ==
  /\ InitBack(StartTime,
              [feed |-> {Msg(1, 1, 1, A, FALSE), Msg(1, 1, 1, EMPTY, FALSE),
                         Msg(1, 1, 2, SP, FALSE), Msg(1, 1, client_user, A, TRUE)},
               answers |-> {Returns(Verdict(TRUE, "high")), Raises},
               jumps |-> {}, ties |-> TRUE, users |-> {"1", "2"},
               autofill |-> {ToString(client_user)}],
              Cfg("azure", "medium"), MsgMsgs)
  /\ InitFront({"1"})

SpecMsg == InitMsg /\ [][NextMsg]_vars

\* The context store alone, while every sentiment analysis is still pending: two
\* consented users in two conversations, and callers of ctx_store.window with
\* limits from 0 to beyond the capacity.
NextCtx ==
  \/ \E m \in env.feed : OnMessage(m)
  \/ \E k \in env.keys : \E limit \in env.limits : Snapshot(k[1], k[2], limit)

InitCtx ==
  /\ InitBack(StartTime,
              [feed |-> {Msg(1, 1, 1, A, FALSE), Msg(1, 1, 2, SP, FALSE),
                         Msg(0, 2, 1, A, FALSE)},
               answers |-> {}, jumps |-> {}, ties |-> TRUE, users |-> {},
               autofill |-> {},
               keys |-> {<<1, 1>>, <<0, 2>>, <<1, 2>>},
               limits |-> 0..(max_per_channel + 1)],
              Cfg("azure", "medium"), CtxMsgs)
  /\ InitFront({"1", "2"})

SpecCtx == InitCtx /\ [][NextCtx]_vars

----------------------------------------------------------------------------
(* Properties of the burst aggregator *)

Cut(text) == Take(text, MAX_COMBINED_CHARS)

\* The contents accepted for key k, from the i-th to the j-th.
Accepted(k, i, j) == SubSeq(Get(hist, k, NoHist).msgs, i, j)

CutAll(ms) == [i \in 1..Len(ms) |-> Cut(ms[i])]

\* The _Burst objects of key k constructed and not yet removed by a finalizer.
LiveOf(k) == {b \in 1..Len(meta) : meta[b].key = k /\ meta[b].live}

AllDone == \A t \in 1..Len(tasks) : Done(tasks[t])

\* C1: every key has at most one live Burst, the one _BUFFERS holds for it, and
\* that Burst holds every message accepted for the key since it was created: an
\* ingest for a key with a live Burst extends it, and a Burst is created only
\* when the key has none.
C1_OneLiveBurstPerKey ==
  \A k \in DOMAIN hist :
    /\ Cardinality(LiveOf(k)) <= 1
    /\ LiveOf(k) = (IF k \in DOMAIN _BUFFERS THEN {_BUFFERS[k]} ELSE {})
    /\ \A b \in LiveOf(k) :
         bursts[b].parts = CutAll(Accepted(k, meta[b].from, Len(hist[k].msgs)))

\* A key whose first Burst was finalized has a second, live Burst that a later
\* ingest extended.
C1_Witness ==
  \E k \in DOMAIN hist : \E b \in LiveOf(k) :
    /\ Len(bursts[b].parts) >= 2
    /\ \E b0 \in 1..Len(meta) : meta[b0].key = k /\ ~meta[b0].live

\* C2: a Burst is removed from _BUFFERS and handed on at most once, by one task,
\* and the parts of a Burst are the messages accepted between its creation and
\* its removal only: a Burst created after a finalization starts after the last
\* message of the finalized one.
C2_FinalizedOnce ==
  /\ \A i, j \in 1..Len(pops) :
       i # j => pops[i].b # pops[j].b /\ pops[i].t # pops[j].t
  /\ \A i \in 1..Len(pops) :
       /\ pops[i].parts = CutAll(Accepted(pops[i].key, meta[pops[i].b].from, pops[i].upto))
       /\ \A b \in 1..Len(meta) :
            meta[b].key = pops[i].key /\ b > pops[i].b => meta[b].from > pops[i].upto

\* A Burst of two messages was finalized although an ingest had cancelled its
\* first finalize task, and the key has a newer Burst.
C2_Witness ==
  \E i \in 1..Len(pops) :
    /\ Len(pops[i].parts) >= 2
    /\ \E t \in 1..Len(tasks) : tasks[t].pc = "cancelled" /\ tasks[t].key = pops[i].key
    /\ \E b \in 1..Len(meta) : meta[b].key = pops[i].key /\ b > pops[i].b

\* The parts of the finalized Bursts of key k, in the order of finalization.
FinalizedParts(k) ==
  Concat([i \in 1..Len(pops) |-> IF pops[i].key = k THEN pops[i].parts ELSE <<>>])

\* C6: once every finalize task has run, the parts of the finalized Bursts of a
\* key are the messages accepted for it, each once, in order (a part is the
\* message cut to MAX_COMBINED_CHARS).
C6_NoTextLost ==
  AllDone =>
    \A k \in DOMAIN hist : FinalizedParts(k) = CutAll(hist[k].msgs)

\* All tasks have run, and a message arrived at the instant a Burst of its key
\* was finalized.
C6_Witness ==
  /\ AllDone
  /\ \E i \in 1..Len(pops) : \E b \in 1..Len(meta) :
       meta[b].key = pops[i].key /\ meta[b].born = pops[i].at /\ b > pops[i].b

\* C7: at the removal of a Burst, DEBOUNCE_SECONDS have passed since the last
\* message accepted for its key, or MAX_BURST_SECONDS since its creation.
C7_NotEarly ==
  \A i \in 1..Len(pops) :
    pops[i].sinceLast >= DEBOUNCE_SECONDS \/ pops[i].age >= MAX_BURST_SECONDS

\* One Burst was finalized by the quiet period before the cap, another by the
\* cap before the quiet period.
C7_Witness ==
  /\ \E i \in 1..Len(pops) :
       pops[i].sinceLast >= DEBOUNCE_SECONDS /\ pops[i].age < MAX_BURST_SECONDS
  /\ \E i \in 1..Len(pops) :
       pops[i].sinceLast < DEBOUNCE_SECONDS /\ pops[i].age >= MAX_BURST_SECONDS

\* C8: an ingest for a key with a live Burst leaves first_ts at the value set at
\* creation, sets last_ts to the time of the ingest, cancels the task armed for
\* the key, arms a new one, and touches no other task.
C8_IngestRearms ==
  [][/\ \A b \in 1..Len(meta') :
          meta'[b].live =>
            /\ bursts'[b].first_ts = meta'[b].born
            /\ bursts'[b].last_ts = hist'[meta'[b].key].last
     /\ \A k \in DOMAIN _BUFFERS :
          ( /\ k \in DOMAIN _BUFFERS'
            /\ _BUFFERS'[k] = _BUFFERS[k]
            /\ hist'[k] # hist[k] ) =>
            LET b == _BUFFERS[k]
                old == bursts[b].task
            IN /\ bursts'[b].first_ts = bursts[b].first_ts
               /\ bursts'[b].last_ts = now
               /\ tasks[old].pc \in {"new", "sleep"}
               /\ tasks'[old].pc = "cancelled"
               /\ bursts'[b].task = Len(tasks')
               /\ Len(tasks') = Len(tasks) + 1
               /\ tasks'[Len(tasks')].pc = "new"
               /\ \A t \in 1..Len(tasks) : t # old => tasks'[t] = tasks[t]]_vars

\* A live Burst was extended after its creation and the task first armed for it
\* is cancelled.
C8_Witness ==
  \E k \in DOMAIN _BUFFERS :
    /\ bursts[_BUFFERS[k]].last_ts > bursts[_BUFFERS[k]].first_ts
    /\ \E t \in 1..Len(tasks) :
         tasks[t].key = k /\ tasks[t].pc = "cancelled" /\ tasks[t].b = _BUFFERS[k]

\* The contents accepted into the i-th finalized Burst.
RawOf(i) == Accepted(pops[i].key, meta[pops[i].b].from, pops[i].upto)

C4_HardCapDominates ==
  \A b \in 1..Len(meta) :
    ( /\ meta[b].live
      /\ meta[b].maxGap < DEBOUNCE_SECONDS
      /\ now - hist[meta[b].key].last < DEBOUNCE_SECONDS ) =>
      now - meta[b].born <= MAX_BURST_SECONDS + POLL

----------------------------------------------------------------------------
(* Properties of the cooldown gate *)

\* C9: every call of _can_dm returns True exactly when the user has no record or
\* COOLDOWN_SECONDS have passed since the recorded time; a call that returns True
\* records the time of the call, a call that returns False leaves _COOLDOWN as it
\* was.
C9_TryConsume ==
  \A i \in 1..Len(dms) :
    /\ dms[i].ret <=> (~dms[i].had \/ dms[i].at - dms[i].prev >= COOLDOWN_SECONDS)
    /\ dms[i].ret => dms[i].after = Put(dms[i].before, dms[i].uid, dms[i].at)
    /\ ~dms[i].ret => dms[i].after = dms[i].before

\* The coaching messages delivered.
Delivered == {t \in 1..Len(tasks) : tasks[t].out = "sent"}

\* Two qualifying bursts of one user reached the cooldown gate, the first at t = 0
\* and the second `gap` later (each within a second), every task has finished and
\* no tip or delivery failed.
TwoQualifying(gap) ==
  /\ AllDone
  /\ Len(dms) = 2
  /\ dms[1].uid = dms[2].uid
  /\ dms[1].at < TicksPerSecond
  /\ dms[2].at >= gap /\ dms[2].at < gap + TicksPerSecond
  /\ \A t \in 1..Len(tasks) : tasks[t].out \notin {"tipfail", "sendfail"}

\* C10: with a cooldown of 600 s, qualifying bursts of one user at t = 0 and
\* t = 500 s give one delivered coaching message, at t = 0 and t = 650 s two.
C10_CooldownExample ==
  /\ TwoQualifying(500 * TicksPerSecond) => Cardinality(Delivered) = 1
  /\ TwoQualifying(650 * TicksPerSecond) => Cardinality(Delivered) = 2

\* C11: any two granted calls of _can_dm for one user are at least
\* COOLDOWN_SECONDS apart, whichever bursts and channels they come from and
\* however the finalize tasks interleave.
C11_GrantsApart ==
  \A i, j \in 1..Len(dms) :
    (i < j /\ dms[i].uid = dms[j].uid /\ dms[i].ret /\ dms[j].ret) =>
      dms[j].at - dms[i].at >= COOLDOWN_SECONDS

\* Two bursts of one user in different channels were both finalized and waiting
\* for the classifier before either reached the cooldown gate; the first call
\* was granted and the second, less than COOLDOWN_SECONDS later, denied.
C11_Witness ==
  /\ Len(dms) = 2
  /\ dms[1].uid = dms[2].uid
  /\ meta[dms[1].b].key # meta[dms[2].b].key
  /\ dms[1].ret /\ ~dms[2].ret
  /\ dms[2].at - dms[1].at < COOLDOWN_SECONDS
  /\ \A i \in 1..Len(pops) : pops[i].at <= dms[1].at
  /\ Len(pops) = 2

\* The task that finalized Burst b.
TaskOf(b) == CHOOSE t \in 1..Len(tasks) : \E i \in 1..Len(pops) : pops[i].b = b /\ pops[i].t = t

\* A granted call of _can_dm whose tip or delivery failed afterwards.
FailedGrants ==
  {i \in 1..Len(dms) : dms[i].ret /\ tasks[TaskOf(dms[i].b)].out \in {"tipfail", "sendfail"}}

\* C12: after a granted _can_dm whose tip composition or delivery then failed,
\* the ledger still holds a timestamp for the user that is not older than the
\* grant, and every later call for the user less than COOLDOWN_SECONDS after the
\* grant is denied.
C12_FailureKeepsCooldown ==
  \A i \in FailedGrants :
    /\ dms[i].uid \in DOMAIN _COOLDOWN
    /\ _COOLDOWN[dms[i].uid] >= dms[i].at
    /\ \A j \in 1..Len(dms) :
         (j > i /\ dms[j].uid = dms[i].uid /\ dms[j].at - dms[i].at < COOLDOWN_SECONDS) =>
           ~dms[j].ret

\* A delivery failed after a grant, and a qualifying burst of the same user that
\* reached the gate after the failure, 500 s after the grant, was denied.
C12_Witness ==
  \E i \in FailedGrants : \E j \in 1..Len(dms) :
    /\ j > i /\ dms[j].uid = dms[i].uid
    /\ tasks[TaskOf(dms[i].b)].out = "sendfail"
    /\ dms[j].afterFailure
    /\ dms[j].at - dms[i].at >= 500 * TicksPerSecond
    /\ ~dms[j].ret

----------------------------------------------------------------------------
(* Properties of classification, policy gate and delivery *)

\* Every message of the list consists of white space only.
AllBlank(ms) == \A i \in 1..Len(ms) : \A j \in 1..Len(ms[i]) : IsSpace(ms[i][j])

\* C13: a finalized Burst all of whose messages are white space is dropped: its
\* task is done without having invoked the classifier, the heuristic, the policy
\* gate, _can_dm, the responder or the notifier.
C13_EmptyBurstDropped ==
  \A i \in 1..Len(pops) :
    AllBlank(RawOf(i)) =>
      /\ tasks[pops[i].t].pc = "done"
      /\ tasks[pops[i].t].calls = <<>>
      /\ \A j \in 1..Len(dms) : dms[j].b # pops[i].b

\* With a detector that asks the remote classifier, a Burst of two blank
\* messages was finalized and dropped.
C13_Witness ==
  /\ cfg.harm_detector \in {"azure", "hybrid"}
  /\ \E i \in 1..Len(pops) :
       /\ Len(RawOf(i)) = 2
       /\ AllBlank(RawOf(i))
       /\ tasks[pops[i].t].pc = "done"

\* The order low < medium < high of the severities.
Rank == [sev \in {"low", "medium", "high"} |-> CASE sev = "low" -> 1
                                                  [] sev = "medium" -> 2
                                                  [] sev = "high" -> 3]

\* A Verdict qualifies: harmful, and at least as severe as the configured minimum.
Qualifies(harm) == harm.is_harmful /\ Rank[harm.severity] >= Rank[cfg.harm_severity_min]

\* C14: the step in which the policy gate is asked about a Verdict that does not
\* qualify leaves the cooldown ledger as it was, calls _can_dm not at all, and
\* ends the task; the responder and the notifier are never called for it.
C14_NoSideEffects ==
  [][\A t \in 1..Len(tasks') :
       ("policy" \in Range(tasks'[t].calls) /\ ~Qualifies(tasks'[t].harm)) =>
         /\ tasks'[t].pc = "done"
         /\ Range(tasks'[t].calls) \cap {"can_dm", "tip", "send"} = {}
         /\ (t > Len(tasks) \/ "policy" \notin Range(tasks[t].calls)) =>
              _COOLDOWN' = _COOLDOWN /\ dms' = dms]_vars

\* A harmful Verdict below the configured minimum stopped at the policy gate
\* while the ledger holds the grant of an earlier, qualifying burst.
C14_Witness ==
  \E t \in 1..Len(tasks) :
    /\ "policy" \in Range(tasks[t].calls)
    /\ tasks[t].harm.is_harmful
    /\ ~Qualifies(tasks[t].harm)
    /\ tasks[t].out = "nopolicy"
    /\ _COOLDOWN # <<>>

\* The place of a call in the pipeline: evaluation (classifier, heuristic,
\* policy gate), then try_consume, then compose_tip, then deliver.
Stage(call) ==
  CASE call = "classify" -> 1 [] call = "heuristic" -> 2 [] call = "policy" -> 3
    [] call = "can_dm" -> 4 [] call = "tip" -> 5 [] call = "send" -> 6

\* The calls of _can_dm made for Burst b.
GateCalls(b) == {j \in 1..Len(dms) : dms[j].b = b}

\* C15: for every finalized non-empty Burst the calls come in the order
\* evaluate, try_consume, compose_tip, deliver, each at most once; _can_dm is
\* called only for a qualifying Verdict, the responder only after _can_dm
\* granted, the notifier only after the responder, and a denied _can_dm is
\* followed by no call.
C15_PipelineOrder ==
  \A i \in 1..Len(pops) :
    LET tk == tasks[pops[i].t]
        calls == tk.calls
    IN /\ \A m, n \in 1..Len(calls) : m < n => Stage(calls[m]) < Stage(calls[n])
       /\ (pops[i].text # <<>> /\ Done(tk)) => "policy" \in Range(calls)
       /\ "can_dm" \in Range(calls) <=> GateCalls(pops[i].b) # {}
       /\ "can_dm" \in Range(calls) => "policy" \in Range(calls) /\ Qualifies(tk.harm)
       /\ Cardinality(GateCalls(pops[i].b)) <= 1
       /\ "tip" \in Range(calls) <=> \E j \in GateCalls(pops[i].b) : dms[j].ret
       /\ "send" \in Range(calls) => "tip" \in Range(calls)
       /\ (\E j \in GateCalls(pops[i].b) : ~dms[j].ret) =>
            calls[Len(calls)] = "can_dm" /\ tk.pc = "done"

\* In hybrid mode one Burst went through all six calls and was delivered, and a
\* second qualifying Burst was denied by _can_dm and stopped there.
C15_Witness ==
  \E i, k \in 1..Len(pops) :
    /\ tasks[pops[i].t].calls = <<"classify", "heuristic", "policy", "can_dm", "tip", "send">>
    /\ tasks[pops[i].t].out = "sent"
    /\ tasks[pops[k].t].out = "cooldown"
    /\ tasks[pops[k].t].calls[Len(tasks[pops[k].t].calls)] = "can_dm"

\* The notifier calls made for the i-th finalized Burst.
Sends(i) ==
  {n \in 1..Len(tasks[pops[i].t].calls) : tasks[pops[i].t].calls[n] = "send"}

\* C16 as claimed: once its task has ended, a finalized Burst whose _can_dm was
\* granted has had exactly one notifier call, and every other Burst none.
C16_AsClaimed ==
  \A i \in 1..Len(pops) :
    Done(tasks[pops[i].t]) =>
      Cardinality(Sends(i)) =
        (IF \E j \in GateCalls(pops[i].b) : dms[j].ret THEN 1 ELSE 0)

\* C16 amended: a finalized Burst has at most one notifier call, made only after
\* its _can_dm was granted; once its task has ended, a granted Burst has had
\* exactly one unless composing the tip raised, and then none.
C16_AtMostOneDelivery ==
  \A i \in 1..Len(pops) :
    LET granted == \E j \in GateCalls(pops[i].b) : dms[j].ret
        tk == tasks[pops[i].t]
    IN /\ Cardinality(Sends(i)) <= 1
       /\ Sends(i) # {} => granted
       /\ Done(tk) =>
            Cardinality(Sends(i)) = (IF granted /\ tk.out # "tipfail" THEN 1 ELSE 0)

\* A granted Burst whose one delivery failed and was not tried again, and a
\* granted Burst whose tip could not be composed and that was never delivered.
C16_Witness ==
  /\ \E i \in 1..Len(pops) :
       tasks[pops[i].t].out = "sendfail" /\ Cardinality(Sends(i)) = 1
  /\ \E i \in 1..Len(pops) :
       /\ tasks[pops[i].t].out = "tipfail"
       /\ \E j \in GateCalls(pops[i].b) : dms[j].ret

\* The classifier failed: the await raised, the endpoint call raised, or the
\* content is not a JSON object with a boolean is_harmful.
ClassifierFailed(ans) ==
  \/ ans.raise
  \/ ans.reply.kind \in {"error", "text", "list"}
  \/ ans.reply.kind = "json" /\ ans.reply.is_harmful \notin {"true", "false"}

\* The tasks that have had the answer of the classifier.
Answered == {t \in 1..Len(tasks) : "classify" \in Range(tasks[t].calls) /\ tasks[t].pc # "classify"}

\* C17: after a classifier failure the finalize task goes on to the policy gate,
\* with a Verdict that is not harmful in azure mode and that is the heuristic's
\* in hybrid mode.
C17_FailureContained ==
  \A t \in Answered :
    ClassifierFailed(tasks[t].ans) =>
      /\ "policy" \in Range(tasks[t].calls)
      /\ cfg.harm_detector = "azure" => ~tasks[t].harm.is_harmful
      /\ cfg.harm_detector = "hybrid" =>
           /\ "heuristic" \in Range(tasks[t].calls)
           /\ tasks[t].harm.is_harmful <=> _heuristic_harmful(tasks[t].text)

\* C18: _passes_policy accepts a Verdict exactly when it is harmful and its
\* severity is at least the configured minimum in the order low < medium < high,
\* for every severity and minimum, and the pipeline goes on to _can_dm exactly
\* for the Verdicts that qualify, whether the remote classifier or the heuristic
\* produced them.
C18_PolicyGate ==
  /\ \A h \in BOOLEAN : \A sev \in {"low", "medium", "high"} :
       _passes_policy(Verdict(h, sev)) <=>
         (h /\ Rank[sev] >= Rank[cfg.harm_severity_min])
  /\ \A t \in 1..Len(tasks) :
       "policy" \in Range(tasks[t].calls) =>
         ("can_dm" \in Range(tasks[t].calls) <=> Qualifies(tasks[t].harm))

\* With minimum medium, a harmful low-severity Verdict of the remote classifier
\* was suppressed and a medium-severity Verdict of the heuristic passed the gate.
C18_Witness ==
  /\ cfg.harm_severity_min = "medium"
  /\ \E t, u \in 1..Len(tasks) :
       /\ tasks[t].harm.is_harmful /\ tasks[t].harm.severity = "low"
       /\ tasks[t].out = "nopolicy"
       /\ tasks[u].harm = KeywordHarm
       /\ "can_dm" \in Range(tasks[u].calls)

\* The Verdict the remote classifier gave the task (line 197 when the await raised).
RemoteOf(tk) == IF tk.ans.raise THEN NoHarm ELSE tk.ans.harm

\* C19: in hybrid mode the heuristic is asked exactly when the remote Verdict is
\* not harmful (the failed call included); when it then fires, the Verdict is
\* is_harmful true, severity medium, reason "keyword"; otherwise the remote
\* Verdict is the one passed to the policy gate.
C19_HybridFallback ==
  cfg.harm_detector = "hybrid" =>
    \A t \in Answered :
      LET tk == tasks[t]
          remote == RemoteOf(tk)
      IN /\ "heuristic" \in Range(tk.calls) <=> ~remote.is_harmful
         /\ remote.is_harmful => tk.harm = remote
         /\ (~remote.is_harmful /\ _heuristic_harmful(tk.text)) =>
              /\ tk.harm.is_harmful
              /\ tk.harm.severity = "medium"
              /\ tk.harm.reason = "keyword"
         /\ (~remote.is_harmful /\ ~_heuristic_harmful(tk.text)) => tk.harm = remote

\* In hybrid mode a text with a keyword was judged harmful with high severity by
\* the remote classifier and kept that Verdict, and another such text got the
\* heuristic's Verdict after the remote call failed.
C19_Witness ==
  /\ cfg.harm_detector = "hybrid"
  /\ \E t, u \in Answered :
       /\ _heuristic_harmful(tasks[t].text)
       /\ RemoteOf(tasks[t]).is_harmful /\ RemoteOf(tasks[t]).severity = "high"
       /\ tasks[t].harm = RemoteOf(tasks[t])
       /\ "heuristic" \notin Range(tasks[t].calls)
       /\ ClassifierFailed(tasks[u].ans)
       /\ "heuristic" \in Range(tasks[u].calls)
       /\ tasks[u].harm = KeywordHarm

\* The signals of the heuristic on a text: a direct-address pattern, a keyword
\* of a lexicon, a token close to an English keyword.
PatternSignal(text) ==
  \/ EN_DIRECT_RE(lower(Strip(text)))
  \/ AR_DIALECT_ENABLED /\ AR_DIRECT_RE(normalize_arabic(dearabizi(Strip(text))))

KeywordSignal(text) ==
  \/ \E k \in EN_KEYWORDS : Contains(lower(Strip(text)), k)
  \/ AR_DIALECT_ENABLED /\ \E k \in AR_KEYWORDS :
       Contains(normalize_arabic(dearabizi(Strip(text))), k)

FuzzySignal(text) ==
  \E token \in Tokens(lower(Strip(text))) : \E k \in EN_KEYWORDS :
    100 * 2 * Matches(token, k) >= 82 * (Len(token) + Len(k))

\* In heuristic-only mode no task asks the remote classifier, the Verdict is
\* harmful exactly when the text has one signal or more, and the texts of
\* `examples` are harmful.
HeuristicOnly(examples) ==
  cfg.harm_detector = "heuristic" =>
    \A t \in 1..Len(tasks) :
      LET tk == tasks[t]
      IN /\ "classify" \notin Range(tk.calls)
         /\ tk.ans = NoAnswer
         /\ tk.harm.is_harmful <=>
              (PatternSignal(tk.text) \/ KeywordSignal(tk.text) \/ FuzzySignal(tk.text))
         /\ tk.msg.content \in examples => tk.harm = KeywordHarm

LineMsgs == 3

\* A text with blanks around it and a line break in it.
TwoLines == <<" ", "a", "\n", "b", " ">>

\* on_message in front of the aggregator and the remote classifier, the mood log
\* being writable.
NextLines ==
  \/ \E m \in env.feed : OnMessage(m)
  \/ \E h \in 1..Len(handlers) : Resume(h, TRUE)
  \/ \E t \in 1..Len(tasks) : Start(t)
  \/ \E t \in 1..Len(tasks) : Wake(t)
  \/ \E t \in 1..Len(tasks) : \E r \in env.answers : Classified(t, r)
  \/ Advance

\* Two consenting users talk in one channel, in texts shorter than, as long as
\* and longer than a context line may be, and the classifier finds no harm.
InitLines ==
  /\ InitBack(StartTime,
              [feed |-> {Msg(1, 1, 1, LONG, FALSE), Msg(1, 1, 2, TwoLines, FALSE),
                         Msg(1, 1, 1, A, FALSE)},
               answers |-> {Returns(Verdict(FALSE, "low"))},
               jumps |-> {}, ties |-> TRUE, users |-> {}, autofill |-> {}],
              Cfg("azure", "medium"), LineMsgs)
  /\ InitFront({"1", "2"})

SpecLines == InitLines /\ [][NextLines]_vars

----------------------------------------------------------------------------
(* Configuration read from the environment *)

ConfMsgs == 1

\* os.getenv(name): None when the variable is unset, else its str.
Unset == [set |-> FALSE, value |-> <<>>]
SetTo(s) == [set |-> TRUE, value |-> s]

RECURSIVE Str(_)
\* The str as one string of the model.
Str(s) == IF s = <<>> THEN "" ELSE s[1] \o Str(Tail(s))

\* _str(v, default) of core.config: v if v else default
_str(v, default) == IF v.set /\ v.value # <<>> THEN v.value ELSE default

DigitValue(c) == CHOOSE n \in 0..9 : ToString(n) = c

IsDigits(s) == s # <<>> /\ \A i \in 1..Len(s) : s[i] \in Digits

RECURSIVE Number(_)
\* The value of a str of decimal digits.
Number(s) ==
  IF s = <<>> THEN 0
  ELSE 10 * Number(SubSeq(s, 1, Len(s) - 1)) + DigitValue(s[Len(s)])

Unsigned(s) == IF s # <<>> /\ s[1] \in {"+", "-"} THEN Tail(s) ELSE s
Sign(s) == IF s # <<>> /\ s[1] = "-" THEN 0 - 1 ELSE 1

\* int(s) for a str without underscores: ok is false where int raises ValueError.
int(s) ==
  [ok |-> IsDigits(Unsigned(Strip(s))),
   val |-> IF IsDigits(Unsigned(Strip(s)))
           THEN Sign(Strip(s)) * Number(Unsigned(Strip(s))) ELSE 0]

\* The position of the first "." of s, Len(s) + 1 when it has none.
Dot(s) ==
  IF \E i \in 1..Len(s) : s[i] = "."
  THEN CHOOSE i \in 1..Len(s) : s[i] = "." /\ \A j \in 1..(i - 1) : s[j] # "."
  ELSE Len(s) + 1

Pow10(n) == IF n = 0 THEN 1 ELSE IF n = 1 THEN 10 ELSE IF n = 2 THEN 100 ELSE 1000

\* The digits before and after the point of an unsigned decimal u.
Whole(u) == SubSeq(u, 1, Dot(u) - 1)
Fraction(u) == SubSeq(u, Dot(u) + 1, Len(u))

\* float of the unsigned decimal u with the given sign, in ticks of the clock.
FloatOf(u, sign) ==
  [ok |-> IsDigits(Whole(u) \o Fraction(u)) /\ Len(Fraction(u)) <= 3,
   val |-> IF IsDigits(Whole(u) \o Fraction(u)) /\ Len(Fraction(u)) <= 3
           THEN (sign * TicksPerSecond * Number(Whole(u) \o Fraction(u)))
                  \div Pow10(Len(Fraction(u)))
           ELSE 0]

\* float(s) for a str in decimal notation with at most three digits after the
\* point, as a number of ticks of the clock: ok is false where float raises
\* ValueError.
float(s) == FloatOf(Unsigned(Strip(s)), Sign(Strip(s)))

\* env_int(key, default), v being os.getenv(key)
env_int(v, default) ==
  IF ~v.set THEN default
  ELSE IF int(Strip(v.value)).ok THEN int(Strip(v.value)).val ELSE default

\* env_float(key, default), v being os.getenv(key): seconds, in ticks.
env_float(v, default) ==
  IF ~v.set THEN default
  ELSE IF float(Strip(v.value)).ok THEN float(Strip(v.value)).val ELSE default

HYBRID == <<"h", "y", "b", "r", "i", "d">>
MEDIUM == <<"m", "e", "d", "i", "u", "m">>

\* cfg.harm_detector (core.config line 60), v being os.getenv("HARM_DETECTOR")
harm_detector(v) == Str(lower(_str(v, HYBRID)))

\* cfg.harm_severity_min (line 61), v being os.getenv("HARM_SEVERITY_MIN")
harm_severity_min(v) == Str(lower(_str(v, MEDIUM)))

\* The settings of core.config and of monitor.py lines 42-45 under the
\* environment raw; the defaults are those of the model's clock and texts.
Config(raw) ==
  [harm_detector |-> harm_detector(raw.HARM_DETECTOR),
   harm_severity_min |-> harm_severity_min(raw.HARM_SEVERITY_MIN),
   ar_dialect_enabled |-> TRUE,
   DEBOUNCE_SECONDS |-> env_float(raw.HARM_DEBOUNCE_SECONDS, DEBOUNCE_SECONDS),
   MAX_BURST_SECONDS |-> env_float(raw.HARM_MAX_BURST_SECONDS, MAX_BURST_SECONDS),
   MAX_COMBINED_CHARS |-> env_int(raw.HARM_MAX_COMBINED_CHARS, MAX_COMBINED_CHARS),
   COOLDOWN_SECONDS |-> TicksPerSecond * env_int(raw.HARM_DM_COOLDOWN_SECONDS, 600)]

\* Values of HARM_DETECTOR: unset, empty, the three names (one in upper case)
\* and a name that is none of them.
RawModes ==
  {Unset, SetTo(<<>>), SetTo(<<"a", "z", "u", "r", "e">>),
   SetTo(<<"H", "Y", "B", "R", "I", "D">>),
   SetTo(<<"h", "e", "u", "r", "i", "s", "t", "i", "c">>), SetTo(<<"f", "o", "o">>)}

\* Values of HARM_SEVERITY_MIN.
RawSeverities ==
  {Unset, SetTo(<<>>), SetTo(<<"l", "o", "w">>), SetTo(<<"H", "I", "G", "H">>),
   SetTo(<<"e", "x", "t", "r", "e", "m", "e">>)}

\* Values of a numeric setting: unset, empty, not a number, an integer, an
\* integer between blanks, and a decimal fraction.
RawNumbers ==
  {Unset, SetTo(<<>>), SetTo(<<"a", "b", "c">>), SetTo(<<"7">>),
   SetTo(<<" ", "2", " ">>), SetTo(<<"1", ".", "5">>)}

\* The monitor for one message under every such environment, the classifier
\* finding the text harmful with severity low or high.
InitConfig ==
  \E d \in RawModes : \E s \in RawSeverities : \E n \in RawNumbers :
    /\ InitBack(StartTime,
                [feed |-> {Msg(1, 1, 1, A, FALSE)},
                 answers |-> {Returns(Verdict(TRUE, "low")),
                              Returns(Verdict(TRUE, "high"))},
                 jumps |-> {}, ties |-> TRUE,
                 raw |-> [HARM_DETECTOR |-> d, HARM_SEVERITY_MIN |-> s,
                          HARM_DEBOUNCE_SECONDS |-> n, HARM_MAX_BURST_SECONDS |-> n,
                          HARM_MAX_COMBINED_CHARS |-> n,
                          HARM_DM_COOLDOWN_SECONDS |-> n]],
                Config([HARM_DETECTOR |-> d, HARM_SEVERITY_MIN |-> s,
                        HARM_DEBOUNCE_SECONDS |-> n, HARM_MAX_BURST_SECONDS |-> n,
                        HARM_MAX_COMBINED_CHARS |-> n,
                        HARM_DM_COOLDOWN_SECONDS |-> n]),
                ConfMsgs)
    /\ InitFront({})

SpecConfig == InitConfig /\ [][Next]_vars

----------------------------------------------------------------------------
(* Properties of on_message and the context store *)

\* The calls of on_message made by another account than the bot's own while the
\* consent oracle returned true for the author.
Eligible ==
  {h \in 1..Len(handlers) :
     handlers[h].consented /\ handlers[h].msg.author # client_user}

\* The eligible calls that reached detect_and_handle_harmful.
Ingested == {h \in Eligible : handlers[h].out = "ingested"}

\* C21: a message whose author the consent oracle rejects, and a message written
\* by the bot's own account, never enters the pipeline: the call returns at the
\* check, the context store holds per conversation and author no more entries
\* than eligible calls, every key has no more accepted messages than eligible
\* calls that were ingested, and every finalize task (the only place of
\* classifier and notifier calls) and every cooldown request belongs to the
\* message of such a call.
C21_ConsentGate ==
  /\ \A h \in (1..Len(handlers)) \ Eligible :
       /\ handlers[h].pc = "done"
       /\ handlers[h].out \in {"self", "noconsent"}
  /\ \A k \in DOMAIN _buf : \A i \in 1..Len(_buf[k]) :
       /\ _buf[k][i].author_id # client_user
       /\ Cardinality({j \in 1..Len(_buf[k]) : _buf[k][j].author_id = _buf[k][i].author_id})
            <= Cardinality({h \in Eligible :
                              /\ handlers[h].msg.author = _buf[k][i].author_id
                              /\ <<handlers[h].msg.guild, handlers[h].msg.channel>> = k})
  /\ \A key \in DOMAIN hist :
       Len(hist[key].msgs) <= Cardinality({h \in Ingested : _key(handlers[h].msg) = key})
  /\ Len(tasks) <= Cardinality(Ingested)
  /\ \A t \in 1..Len(tasks) : \E h \in Ingested : handlers[h].msg = tasks[t].msg
  /\ \A d \in 1..Len(dms) : \E h \in Ingested : ToString(handlers[h].msg.author) = dms[d].uid

\* A message of a user without consent arrived and was dropped, and a message of
\* a consenting user was recorded, classified and answered with a DM.
C21_Witness ==
  /\ \E h \in 1..Len(handlers) : handlers[h].out = "noconsent"
  /\ \E t \in 1..Len(tasks) : tasks[t].out = "sent"
  /\ _buf # <<>>

\* A step in which detect_and_handle_harmful accepted a message.
IngestStep == hist' # hist

\* C22: ingest never waits: a message can be ingested in every state, whatever
\* the finalize tasks are waiting for, and the step that accepts it takes no
\* time, leaves the cooldown map and every other task's calls as they were
\* (at most it cancels the pending task of the key), and ends with one new task
\* that has not run yet, so that no classifier, responder or notifier call is
\* made within it.
C22_IngestNeverWaits ==
  /\ [](budget > 0 => \A m \in env.feed : ENABLED Ingest(m))
  /\ [][IngestStep =>
          /\ now' = now
          /\ UNCHANGED <<_COOLDOWN, dms, pops>>
          /\ Len(tasks') = Len(tasks) + 1
          /\ tasks'[Len(tasks')].pc = "new"
          /\ tasks'[Len(tasks')].calls = <<>>
          /\ \A t \in 1..Len(tasks) :
               \/ tasks'[t] = tasks[t]
               \/ /\ tasks[t].key = tasks'[Len(tasks')].key
                  /\ tasks'[t] = [tasks[t] EXCEPT !.pc = "cancelled", !.wake = 0]]_vars

\* A message was ingested while an earlier task was waiting for the classifier.
C22_Witness ==
  \E t1, t2 \in 1..Len(tasks) :
    /\ tasks[t1].pc = "classify"
    /\ t2 > t1
    /\ tasks[t2].pc = "new"

\* The keys a step acts for: the key whose message is accepted, and the key of a
\* finalize task that takes a step of its own.
ActingKeys ==
  {k \in DOMAIN hist' : Get(hist, k, NoHist) # hist'[k]}
    \cup {tasks[t].key : t \in {u \in 1..Len(tasks) :
                                  tasks'[u] # tasks[u] /\ tasks'[u].pc # "cancelled"}}

\* C23: bursts of different keys are independent: a step that ingests or
\* finalizes for other keys leaves a live burst of key B in _BUFFERS with the
\* same parts, first_ts, last_ts and pending task, and leaves every task of B,
\* its finalize wait included, as it was.
C23_KeysIndependent ==
  [][\A B \in DOMAIN _BUFFERS :
       (ActingKeys # {} /\ B \notin ActingKeys) =>
         /\ B \in DOMAIN _BUFFERS'
         /\ _BUFFERS'[B] = _BUFFERS[B]
         /\ bursts'[_BUFFERS[B]] = bursts[_BUFFERS[B]]
         /\ \A t \in 1..Len(tasks) : tasks[t].key = B => tasks'[t] = tasks[t]]_vars

\* A burst of one key was finalized, and a second message of that key was
\* ingested, while a burst of another key stayed live.
C23_Witness ==
  \E i \in 1..Len(pops) : \E B \in DOMAIN _BUFFERS :
    /\ B # pops[i].key
    /\ meta[_BUFFERS[B]].born < pops[i].at
    /\ Len(pops[i].parts) = 2

RECURSIVE Recorded(_, _)
\* The entries the first n calls of on_message recorded for conversation k, in
\* the order of arrival.
Recorded(k, n) ==
  IF n = 0 THEN <<>>
  ELSE IF /\ handlers[n].out \notin {"self", "noconsent"}
          /\ <<handlers[n].msg.guild, handlers[n].msg.channel>> = k
       THEN Append(Recorded(k, n - 1),
                   CtxMsg(handlers[n].msg.author, handlers[n].msg.content))
       ELSE Recorded(k, n - 1)

\* The last n elements of q, all of q when it has fewer.
LastN(q, n) == IF Len(q) <= n THEN q ELSE SubSeq(q, Len(q) - n + 1, Len(q))

\* C24: the context store never holds more than max_per_channel entries for a
\* conversation, and what it holds is the most recent entries recorded for the
\* conversation, in the order of arrival: on a full buffer the oldest goes and
\* the new one is appended.
C24_BoundedWindow ==
  \A k \in DOMAIN _buf :
    /\ Len(_buf[k]) <= max_per_channel
    /\ _buf[k] = LastN(Recorded(k, Len(handlers)), max_per_channel)

\* More messages than the capacity were recorded for one conversation, by the two
\* users in turn.
C24_Witness ==
  \E k \in DOMAIN _buf :
    /\ Len(Recorded(k, Len(handlers))) > max_per_channel
    /\ Recorded(k, Len(handlers))[1] # _buf[k][1]
    /\ _buf[k][1] # _buf[k][2]

\* C25: a call of ctx_store.window with a limit >= 0 returns at most limit
\* entries, the min(limit, stored) most recent ones of the conversation, oldest
\* first, and the empty list for a conversation never recorded.
C25_Snapshot ==
  /\ Len(snap.got) <= snap.limit
  /\ snap.got = LastN(snap.stored, snap.limit)
  /\ ~snap.known => snap.got = <<>>

\* C26: the burst text is bounded: every part stored in a _Burst, and the
\* combined text of every finalized burst, which is the text the classifier, the
\* tip and the notification are given, has at most MAX_COMBINED_CHARS characters.
C26_TextBounded ==
  /\ \A b \in 1..Len(bursts) : \A i \in 1..Len(bursts[b].parts) :
       Len(bursts[b].parts[i]) <= MAX_COMBINED_CHARS
  /\ \A i \in 1..Len(pops) : Len(pops[i].text) <= MAX_COMBINED_CHARS
  /\ \A t \in 1..Len(tasks) : Len(tasks[t].text) <= MAX_COMBINED_CHARS

\* A burst of two messages, each longer than MAX_COMBINED_CHARS, was classified
\* and answered with a DM.
C26_Witness ==
  \E i \in 1..Len(pops) :
    /\ Len(pops[i].parts) = 2
    /\ \A m \in Range(hist[pops[i].key].msgs) : Len(m) > MAX_COMBINED_CHARS
    /\ tasks[pops[i].t].out = "sent"
    /\ Len(tasks[pops[i].t].text) = MAX_COMBINED_CHARS

----------------------------------------------------------------------------
(* Properties of the configuration *)

\* The value of a numeric setting cannot be read as a number of its type.
Unparseable(v, kind) ==
  v.set /\ ~(IF kind = "int" THEN int(v.value).ok ELSE float(v.value).ok)

\* The value of a setting is given and, whatever its case, none of the names.
Undocumented(v, names) == v.set /\ v.value # <<>> /\ Str(lower(v.value)) \notin names

\* The setting the pipeline is to work with: the default when the value is
\* missing or undocumented.
Effective(v, names, default) ==
  IF ~v.set \/ v.value = <<>> \/ Undocumented(v, names)
  THEN default ELSE Str(lower(v.value))

\* The numeric settings that cannot be parsed are at their defaults.
NumericDefaults ==
  /\ Unparseable(env.raw.HARM_DEBOUNCE_SECONDS, "float")
       => cfg.DEBOUNCE_SECONDS = DEBOUNCE_SECONDS
  /\ Unparseable(env.raw.HARM_MAX_BURST_SECONDS, "float")
       => cfg.MAX_BURST_SECONDS = MAX_BURST_SECONDS
  /\ Unparseable(env.raw.HARM_MAX_COMBINED_CHARS, "int")
       => cfg.MAX_COMBINED_CHARS = MAX_COMBINED_CHARS
  /\ Unparseable(env.raw.HARM_DM_COOLDOWN_SECONDS, "int")
       => cfg.COOLDOWN_SECONDS = COOLDOWN_SECONDS

\* An undocumented detector or minimum severity is at its default.
NamedDefaults ==
  /\ Undocumented(env.raw.HARM_DETECTOR, {"azure", "heuristic", "hybrid"})
       => cfg.harm_detector = "hybrid"
  /\ Undocumented(env.raw.HARM_SEVERITY_MIN, {"low", "medium", "high"})
       => cfg.harm_severity_min = "medium"

\* Every task that finalized a burst with text asked the classifier exactly when
\* the effective detector has a remote part, and went on to the cooldown gate
\* exactly when its Verdict qualifies under the effective minimum severity.
BehavesAsEffective ==
  \A t \in 1..Len(tasks) :
    (tasks[t].pc = "done" /\ tasks[t].text # <<>>) =>
      /\ (\E i \in 1..Len(tasks[t].calls) : tasks[t].calls[i] = "classify")
           <=> Effective(env.raw.HARM_DETECTOR, {"azure", "heuristic", "hybrid"},
                         "hybrid") \in {"azure", "hybrid"}
      /\ (\E i \in 1..Len(tasks[t].calls) : tasks[t].calls[i] = "can_dm")
           <=> /\ tasks[t].harm.is_harmful
               /\ _severity_rank(tasks[t].harm.severity)
                    >= _severity_rank(Effective(env.raw.HARM_SEVERITY_MIN,
                                                {"low", "medium", "high"}, "medium"))

\* C27: a configuration value that fails to parse, or is not one of the
\* documented values, resolves to the documented default of its setting, and
\* the pipeline then behaves as with that default.
C27_DefaultsOnBadConfig ==
  /\ NumericDefaults
  /\ NamedDefaults
  /\ BehavesAsEffective

----------------------------------------------------------------------------
(* Errors and the caller *)

\* A step in which a collaborator of task t failed: the classifier raised, or the
\* tip or the delivery did.
FailureStep(t) ==
  \/ tasks'[t].ans.raise /\ ~tasks[t].ans.raise
  \/ tasks'[t].out \in {"tipfail", "sendfail"} /\ tasks[t].out = ""

\* C28: no error of the core reaches the caller: a call of on_message that waits
\* for its sentiment can always go on through detect_and_handle_harmful to its
\* end, whatever the message and whatever the finalize tasks did; a call that
\* ended did so at a check, after ingesting, or because log_mood (outside the
\* core) raised; and a failing classifier, tip or delivery changes its own task
\* only, which goes on or returns, and no call of on_message.
C28_NoErrorReachesCaller ==
  /\ [](\A h \in 1..Len(handlers) :
          /\ handlers[h].pc = "sentiment" => ENABLED Resume(h, TRUE)
          /\ handlers[h].pc = "done" =>
               handlers[h].out \in {"self", "noconsent", "ingested", "log_mood"})
  /\ [][\A t \in 1..Len(tasks) :
          FailureStep(t) =>
            /\ handlers' = handlers
            /\ tasks'[t].pc \in {"done", "tip"}
            /\ \A u \in 1..Len(tasks) : u # t => tasks'[u] = tasks[u]]_vars

\* The classifier raised for a burst whose task then returned, a message without
\* text went through detect_and_handle_harmful, and every call of on_message
\* returned after ingesting.
C28_Witness ==
  /\ \E t \in 1..Len(tasks) : tasks[t].ans.raise /\ tasks[t].pc = "done"
  /\ \E h \in 1..Len(handlers) :
       handlers[h].out = "ingested" /\ handlers[h].msg.content = <<>>
  /\ \A h \in 1..Len(handlers) : handlers[h].out = "ingested"

----------------------------------------------------------------------------
(* One Verdict per burst *)

\* The Verdict of lines 196-206 for a task, from the answer its own classifier
\* call got and from its own text.
OwnVerdict(tk) ==
  IF /\ cfg.harm_detector \in {"heuristic", "hybrid"}
     /\ ~(cfg.harm_detector = "hybrid" /\ RemoteOf(tk).is_harmful)
     /\ _heuristic_harmful(tk.text)
  THEN KeywordHarm
  ELSE IF cfg.harm_detector \in {"azure", "hybrid"} THEN RemoteOf(tk) ELSE NoHarm

\* The finalized bursts with text whose task has its Verdict.
Judged ==
  {i \in 1..Len(pops) : pops[i].text # <<>> /\ tasks[pops[i].t].pc # "classify"}

\* C29: every finalized burst with text gets a Verdict of its own: its task, which
\* finalizes no other burst, calls the remote classifier exactly once in azure
\* and hybrid mode (and never in heuristic mode), its Verdict is the one that
\* follows from the answer to that call and from its own text, and it goes on to
\* the cooldown gate exactly when that Verdict passes the policy.
C29_FreshVerdict ==
  /\ \A i, j \in 1..Len(pops) : i # j => pops[i].t # pops[j].t
  /\ \A i \in 1..Len(pops) :
       pops[i].text # <<>> =>
         Cardinality({c \in 1..Len(tasks[pops[i].t].calls) :
                        tasks[pops[i].t].calls[c] = "classify"})
           = IF cfg.harm_detector \in {"azure", "hybrid"} THEN 1 ELSE 0
  /\ \A i \in Judged :
       /\ tasks[pops[i].t].harm = OwnVerdict(tasks[pops[i].t])
       /\ "can_dm" \in Range(tasks[pops[i].t].calls)
            <=> _passes_policy(OwnVerdict(tasks[pops[i].t]))

\* Two bursts of one key were finalized one after the other with the remote
\* classifier: the first was found harmful and answered with a DM, the second
\* was found harmless and dropped at the policy gate.
C29_Witness ==
  /\ cfg.harm_detector \in {"azure", "hybrid"}
  /\ \E i, j \in Judged :
       /\ i < j
       /\ pops[i].key = pops[j].key
       /\ tasks[pops[i].t].out = "sent"
       /\ ~tasks[pops[j].t].harm.is_harmful
       /\ tasks[pops[j].t].out = "nopolicy"

----------------------------------------------------------------------------
(* The cooldown map over time *)

\* The call of _can_dm made in this step, as a set of at most one record.
CanDmCall == IF Len(dms') > Len(dms) THEN {dms'[Len(dms')]} ELSE {}

\* C30: _COOLDOWN only grows and only moves forward: no user is ever removed and
\* no user's time ever decreases; it changes only in a step with a granted call
\* of _can_dm, and then only by the time of the call being recorded for the user
\* of the call; a denied call leaves the whole map as it was.
C30_LedgerMonotonic ==
  [][/\ DOMAIN _COOLDOWN \subseteq DOMAIN _COOLDOWN'
     /\ \A u \in DOMAIN _COOLDOWN : _COOLDOWN'[u] >= _COOLDOWN[u]
     /\ _COOLDOWN' # _COOLDOWN =>
          \E c \in CanDmCall : c.ret /\ _COOLDOWN' = Put(_COOLDOWN, c.uid, now)
     /\ \A c \in CanDmCall : ~c.ret => _COOLDOWN' = _COOLDOWN]_vars

\* A user was granted a DM twice, the second time after the cooldown, and the
\* time recorded for the user moved forward from the first grant to the second.
C30_Witness ==
  \E i, j \in 1..Len(dms) :
    /\ i < j
    /\ dms[i].uid = dms[j].uid
    /\ dms[i].ret /\ dms[j].ret
    /\ dms[j].before[dms[j].uid] = dms[i].at
    /\ _COOLDOWN[dms[j].uid] = dms[j].at
    /\ dms[j].at > dms[i].at

----------------------------------------------------------------------------
(* The context lines of a finalized burst *)

\* The position of the first ":" of a context line.
Colon(line) ==
  CHOOSE i \in 1..Len(line) : line[i] = ":" /\ \A j \in 1..(i - 1) : line[j] # ":"

\* The label of a context line and its text part, which follows ": ".
LabelOf(line) == SubSeq(line, 1, Colon(line) - 1)
TextOf(line) == SubSeq(line, Colon(line) + 2, Len(line))

\* The stored text as a line shows it: stripped, line breaks turned into blanks.
Shown(content) == Replace(Strip(content), "\n", " ")

\* The tasks that handed their context lines to the classifier.
Handed == {t \in 1..Len(tasks) : "classify" \in Range(tasks[t].calls)}

----------------------------------------------------------------------------
(* Bursts and their finalize tasks *)

\* The tasks that have not reached the pop of line 178: created or in the wait.
Waiting == {t \in 1..Len(tasks) : tasks[t].pc \in {"new", "sleep"}}

\* C32: between the steps of the event loop, every _Burst in _BUFFERS has exactly
\* one waiting task of its key, the one kept in its task field, which holds that
\* very _Burst once it has started; and every task that has neither finished nor
\* been cancelled is the waiting task of a live _Burst or has itself removed a
\* _Burst from _BUFFERS.
C32_OneTaskPerBurst ==
  /\ \A k \in DOMAIN _BUFFERS :
       /\ Cardinality({t \in Waiting : tasks[t].key = k}) = 1
       /\ bursts[_BUFFERS[k]].task \in Waiting
       /\ tasks[bursts[_BUFFERS[k]].task].key = k
  /\ \A t \in 1..Len(tasks) :
       ~Done(tasks[t]) =>
         IF t \in Waiting
         THEN /\ tasks[t].key \in DOMAIN _BUFFERS
              /\ bursts[_BUFFERS[tasks[t].key]].task = t
              /\ tasks[t].pc = "sleep" => tasks[t].b = _BUFFERS[tasks[t].key]
         ELSE \E i \in 1..Len(pops) : pops[i].t = t /\ pops[i].key = tasks[t].key

\* A key has a live _Burst with its waiting task while an earlier task of the
\* key, which removed the _Burst before it, still awaits the classifier.
C32_Witness ==
  \E t1, t2 \in 1..Len(tasks) :
    /\ t1 < t2
    /\ tasks[t1].key = tasks[t2].key
    /\ tasks[t1].pc = "classify"
    /\ tasks[t2].pc = "sleep"
    /\ tasks[t2].key \in DOMAIN _BUFFERS

\* The tasks that removed a _Burst from _BUFFERS.
Popped == {pops[i].t : i \in 1..Len(pops)}

\* C33: a cancelled finalize task has no effect: it has removed no _Burst and
\* made no call (classifier, heuristic, _can_dm, tip, send), and it never changes
\* again; and a task that has removed its _Burst is never cancelled: a later
\* ingest, also one for the same key, leaves it as it is.
C33_SupersededHasNoEffect ==
  /\ [](\A t \in 1..Len(tasks) :
          tasks[t].pc = "cancelled" =>
            /\ t \notin Popped
            /\ tasks[t].calls = <<>>
            /\ tasks[t].out = "")
  /\ [](\A t \in Popped : tasks[t].pc # "cancelled")
  /\ [][/\ \A t \in 1..Len(tasks) : tasks[t].pc = "cancelled" => tasks'[t] = tasks[t]
        /\ IngestStep => \A t \in Popped : tasks'[t] = tasks[t]]_vars

\* A task was cancelled by a second message of its key; the task that took its
\* place removed the _Burst; and a message of the key was ingested while that
\* task awaited the classifier; it then got the answer and sent its message.
C33_Witness ==
  \E t1, t2, t3 \in 1..Len(tasks) :
    /\ t1 < t2 /\ t2 < t3
    /\ tasks[t1].key = tasks[t2].key /\ tasks[t2].key = tasks[t3].key
    /\ tasks[t1].pc = "cancelled"
    /\ t2 \in Popped
    /\ tasks[t2].out = "sent" /\ "classify" \in Range(tasks[t2].calls)
    /\ \E i \in 1..Len(pops) : pops[i].t = t2 /\ pops[i].upto = 2
    /\ Len(hist[tasks[t3].key].msgs) = 3

\* Every Burst, live or removed, was at most d old since the latest message of
\* its key when it was removed (or is now).
FinalizedSoonAfterLast(d) ==
  /\ \A i \in 1..Len(pops) : pops[i].sinceLast <= d
  /\ \A b \in 1..Len(meta) : meta[b].live => now - hist[meta[b].key].last <= d

\* No Burst, live or removed, has lived longer than d.
LifetimeWithin(d) ==
  /\ \A i \in 1..Len(pops) : pops[i].age <= d
  /\ \A b \in 1..Len(meta) : meta[b].live => now - meta[b].born <= d

\* C34: with messages of a key at least one poll period apart, a Burst is removed
\* within DEBOUNCE_SECONDS plus one poll period of the latest message of its key,
\* and no Burst lives longer than MAX_BURST_SECONDS plus one poll period.
C34_BoundedWait ==
  /\ FinalizedSoonAfterLast(DEBOUNCE_SECONDS + POLL)
  /\ LifetimeWithin(MAX_BURST_SECONDS + POLL)

\* What the code keeps of C34: the bound after the latest message.
C34_AfterLastMessage == FinalizedSoonAfterLast(DEBOUNCE_SECONDS + POLL)

\* The calls of on_message that reach detect_and_handle_harmful in this step
\* with a message that has no text or comes from a bot.
SkippedNow ==
  {h \in 1..Len(handlers) :
     /\ handlers[h].pc = "sentiment" /\ handlers'[h].out = "ingested"
     /\ (handlers[h].msg.content = <<>> \/ handlers[h].msg.bot)}

\* C35: a call of detect_and_handle_harmful with a message without text or of a
\* bot leaves the aggregator as it was: _BUFFERS and every _Burst (parts,
\* first_ts, last_ts, task) are unchanged, no task is created and none cancelled.
C35_SkippedLeavesAggregator ==
  [][SkippedNow # {} =>
       /\ _BUFFERS' = _BUFFERS
       /\ bursts' = bursts
       /\ tasks' = tasks
       /\ hist' = hist /\ meta' = meta]_vars

\* A message without text and a message of a bot went through
\* detect_and_handle_harmful, and the one _Burst there is, made by the text of
\* user 1, is live with the one task there is, which sleeps.
C35_Witness ==
  /\ \E h \in 1..Len(handlers) :
       handlers[h].out = "ingested" /\ handlers[h].msg.content = <<>>
  /\ \E h \in 1..Len(handlers) :
       handlers[h].out = "ingested" /\ handlers[h].msg.bot
  /\ Len(tasks) = 1 /\ tasks[1].pc = "sleep" /\ now > meta[1].born
  /\ DOMAIN _BUFFERS = {<<1, 1, 1>>}
  /\ Len(bursts[_BUFFERS[<<1, 1, 1>>]].parts) = 1

\* The author the key of task t names, as _can_dm is given it.
KeyAuthor(key) == ToString(key[3])

\* The tasks that went as far as the cooldown gate.
AtGate == {t \in 1..Len(tasks) : "can_dm" \in Range(tasks[t].calls)}

\* C36: what a burst causes goes to the author its key names: the task that
\* removed the Burst asks _can_dm for that author and sends to that author, every
\* call of _can_dm made for a Burst is for the author of the Burst's key, and a
\* step changes the _COOLDOWN entry of no one but that author.
C36_OnlyTheAuthor ==
  /\ [](\A t \in AtGate :
          /\ ToString(tasks[t].msg.author) = KeyAuthor(tasks[t].key)
          /\ \E i \in 1..Len(pops) :
               pops[i].t = t /\ meta[pops[i].b].key = tasks[t].key)
  /\ [](\A i \in 1..Len(dms) : dms[i].uid = KeyAuthor(meta[dms[i].b].key))
  /\ [][\A u \in DOMAIN _COOLDOWN' :
          Get(_COOLDOWN', u, -1) # Get(_COOLDOWN, u, -1) =>
            /\ Len(dms') = Len(dms) + 1
            /\ dms'[Len(dms')].uid = u
            /\ KeyAuthor(meta[dms'[Len(dms')].b].key) = u
            /\ \A v \in DOMAIN _COOLDOWN : v # u => _COOLDOWN'[v] = _COOLDOWN[v]]_vars

\* Two authors wrote in one channel; each got the message for the own burst,
\* and each has the own entry in _COOLDOWN.
C36_Witness ==
  /\ \E t1, t2 \in 1..Len(tasks) :
       /\ tasks[t1].out = "sent" /\ tasks[t2].out = "sent"
       /\ tasks[t1].key = <<1, 1, 1>> /\ tasks[t2].key = <<1, 1, 2>>
  /\ DOMAIN _COOLDOWN = {"1", "2"}
  /\ Len(dms) = 3

\* The answered tasks whose remote Verdict is harmful with severity low.
RemoteLow ==
  {t \in Answered : RemoteOf(tasks[t]).is_harmful /\ RemoteOf(tasks[t]).severity = "low"}

\* C37: in hybrid mode a remote Verdict that is harmful with severity low is the
\* Verdict of the burst: the heuristic is not asked, and with minimum severity
\* medium (or high) the burst does not qualify, whatever the heuristic would
\* have said of the text: the task returns at the policy gate without a call of
\* _can_dm.
C37_RemoteLowIsFinal ==
  cfg.harm_detector = "hybrid" =>
    \A t \in RemoteLow :
      /\ "heuristic" \notin Range(tasks[t].calls)
      /\ tasks[t].harm = RemoteOf(tasks[t])
      /\ cfg.harm_severity_min \in {"medium", "high"} =>
           /\ tasks[t].out = "nopolicy"
           /\ "can_dm" \notin Range(tasks[t].calls)

\* Hybrid mode with minimum medium: the remote classifier called a text harmful
\* with severity low, the heuristic alone would have made a Verdict that
\* qualifies, and the task returned at the policy gate.
C37_Witness ==
  /\ cfg.harm_detector = "hybrid" /\ cfg.harm_severity_min = "medium"
  /\ \E t \in RemoteLow :
       /\ _heuristic_harmful(tasks[t].text)
       /\ _passes_policy(KeywordHarm)
       /\ tasks[t].out = "nopolicy"

\* The conversations a message was recorded for.
RecordedKeys ==
  {<<handlers[h].msg.guild, handlers[h].msg.channel>> :
     h \in {i \in 1..Len(handlers) : handlers[i].out \notin {"self", "noconsent"}}}

\* C38: ctx_store.window only reads: a call (a step that takes no message)
\* leaves the store as it was, entry for entry and in the same order, and the
\* store has an entry for no conversation but those a message was recorded for,
\* whatever conversations window was called for.
C38_WindowReadOnly ==
  /\ [](DOMAIN _buf = RecordedKeys)
  /\ [][budget' = budget => _buf' = _buf]_vars

\* window was called with a positive limit for a conversation nothing was
\* recorded for, while the store holds two other conversations, and the store
\* has no entry for it.
C38_Witness ==
  /\ snap.key = <<1, 2>> /\ snap.limit > 0 /\ ~snap.known /\ snap.got = <<>>
  /\ DOMAIN _buf = {<<1, 1>>, <<0, 2>>}
  /\ Len(_buf[<<1, 1>>]) = max_per_channel

====
